---------------------------- MODULE Spec2Model ----------------------------
(***************************************************************************)
(* bsdm-proxy as a state machine.                                          *)
(*                                                                         *)
(* The request engine of src/proxy/src/main.rs: each client connection     *)
(* runs handle_connection / handle_request; the steps of a handler are the *)
(* pieces between its .await points.  The response cache (quick_cache),    *)
(* the wall clock and the upstream origin are shared.                      *)
(*                                                                         *)
(* The cache hierarchy of src/proxy/src/{peers,selection,icp,hierarchy}.rs:*)
(* the peer registry with its statistics and health flags, the selection   *)
(* strategies, the ICP query client and resolve_source.                    *)
(***************************************************************************)
EXTENDS Integers, Sequences, FiniteSets, TLC

VARIABLES
    now,             \* SystemTime::now(), in whole TTL units
    http_cache,      \* ProxyService.http_cache: cache key -> CachedResponse
    kafka_producer,  \* ProxyService.kafka_producer.is_some()
    req,             \* per client connection: the handler's position and locals
    ret,             \* what the handler step just taken returned (NoReturn: nothing)
    inserted,        \* history: cache key -> the last insertion made under it
    keyq,            \* inputs and results of generate_cache_key (KeySpec)
    peers,           \* PeerRegistry.peers: peer id -> CachePeer
    hier,            \* HierarchyManager: config, icp_client, selection_strategy
    call,            \* the resolve_source call in progress: position and locals
    net,             \* the ICP client's UDP socket and the queries on the wire
    hret,            \* what the hierarchy operation just performed returned
    picks,           \* a caller's tally of what SelectionStrategy::select returned
    codec,           \* the message last given to IcpMessage::encode and the results
    server,          \* IcpServer: its handler, its socket and what it last handled
    cert_cache,      \* CertCache: certs (hostname -> CertPair), ca_cert, ca_key
    mint,            \* per TLS task: its position in get_or_generate and its locals
    cret,            \* what get_or_generate last returned, and the first pair per host
    kafka,           \* the send task spawned by send_to_kafka_async: record and outcome
    sends,           \* the records of the spawned send tasks that have not finished
    auth,            \* the headers given to extract_user_info and what it returned
    acl,             \* AclEngine: rules, default_action; the order of addition; the last decision
    qpeer,           \* one query_peer call: its peer and request number, its socket, its result
    rec,             \* per task: its position in record_peer_hit, _miss or _error; the rate last computed
    handed           \* peers resolve_source returned whose fetch is not yet recorded

engine == <<now, http_cache, kafka_producer, req, ret, inserted, keyq>>
hierarchy == <<peers, hier, call, net, hret>>
certificates == <<cert_cache, mint, cret>>
modules == <<sends, auth, acl, qpeer, rec, handed>>
services == <<picks, codec, server, cert_cache, mint, cret, kafka, modules>>
vars == <<now, http_cache, kafka_producer, req, ret, inserted, keyq,
          peers, hier, call, net, hret, picks, codec, server,
          cert_cache, mint, cret, kafka, sends, auth, acl, qpeer, rec, handed>>

(***************************************************************************)
(* Configuration (CacheConfig), scaled down, and the model's bounds.       *)
(***************************************************************************)
capacity == 1
default_ttl == 1
max_body_size == 1
MaxTime == default_ttl + 1

Clients == {"c1", "c2"}

CACHEABLE_METHODS == {"GET", "HEAD"}
CACHEABLE_STATUS_CODES == {200, 203, 204, 206, 300, 301, 404, 405, 410, 414, 501}

Methods == {"GET", "HEAD", "POST"}
UpstreamStatuses == {200, 500}
\* The header block of an upstream response: an end-to-end header and a
\* hop-by-hop one.
UpstreamHeaders ==
    {[h \in {"content-type", "connection"} |->
         IF h = "content-type" THEN "text/plain" ELSE "keep-alive"]}

RECURSIVE Fill(_, _)
Fill(c, n) == IF n = 0 THEN "" ELSE c \o Fill(c, n - 1)

\* Upstream bodies: two different ones of exactly max_body_size bytes, and
\* one of max_body_size + 1 bytes.
UpstreamBodies ==
    {Fill("x", max_body_size), Fill("y", max_body_size), Fill("x", max_body_size + 1)}

(***************************************************************************)
(* Request targets and req.uri().to_string().  hyper's Uri parses the      *)
(* scheme case-insensitively and prints it in lower case; the authority    *)
(* (host and port) and the path are printed as received.                   *)
(***************************************************************************)
LowerAscii(s) ==
    CASE s = "HTTP" -> "http"
      [] s = "ORIGIN" -> "origin"
      [] OTHER -> s

Target(scheme, host, port, path) ==
    [scheme |-> scheme, host |-> host, port |-> port, path |-> path]

uri_to_string(t) == LowerAscii(t.scheme) \o "://" \o t.host \o t.port \o t.path

\* The targets the clients of the request engine ask for.
Targets == {Target("http", "origin", "", "/a")}

\* The targets generate_cache_key is examined on.
KeyTargets ==
    {Target(s, h, p, q) : s \in {"http", "HTTP"}, h \in {"origin", "ORIGIN"},
                          p \in {"", ":80"}, q \in {"/a", "/A"}}

(***************************************************************************)
(* generate_cache_key: hex(SHA-256(method ':' url)).  SHA-256 is taken as  *)
(* collision-free: a digest is written as the bytes it was computed from.  *)
(***************************************************************************)
Sha256Hex(bytes) == "sha256(" \o bytes \o ")"

\* generate_cache_key without the method in the hashed bytes.
generate_cache_key_no_method(method, url) == Sha256Hex(":" \o url)

generate_cache_key(method, url) == Sha256Hex(method \o ":" \o url)

\* is_cacheable without the body size test, and without the status test.
is_cacheable_no_size(method, status, body_size) ==
    /\ method \in CACHEABLE_METHODS
    /\ status \in CACHEABLE_STATUS_CODES

is_cacheable_any_status(method, status, body_size) ==
    /\ method \in CACHEABLE_METHODS
    /\ body_size <= max_body_size

is_cacheable(method, status, body_size) ==
    /\ method \in CACHEABLE_METHODS
    /\ status \in CACHEABLE_STATUS_CODES
    /\ body_size <= max_body_size

(***************************************************************************)
(* CachedResponse                                                          *)
(***************************************************************************)
CachedResponse(status, headers, body, cached_at, ttl) ==
    [status |-> status, headers |-> headers, body |-> body,
     cached_at |-> cached_at, ttl |-> ttl]

\* is_expired with the entry already expired at age = ttl.
is_expired_at_ttl(entry) ==
    IF now < entry.cached_at THEN TRUE ELSE now - entry.cached_at >= entry.ttl

\* duration_since fails when the clock reads earlier than cached_at.
is_expired(entry) ==
    IF now < entry.cached_at THEN TRUE ELSE now - entry.cached_at > entry.ttl

WithHeader(headers, name, value) ==
    [h \in DOMAIN headers \cup {name} |-> IF h = name THEN value ELSE headers[h]]

Response(status, headers, body) ==
    [status |-> status, headers |-> headers, body |-> body]

NoHeaders == [h \in {} |-> ""]
NoResponse == Response(0, NoHeaders, "")

to_response(entry) ==
    Response(entry.status, WithHeader(entry.headers, "x-cache-status", "HIT"), entry.body)

(***************************************************************************)
(* quick_cache: insert writes the entry and, when the cache then holds     *)
(* more than its capacity, removes entries chosen by its approximate-LRU   *)
(* policy (here: any entries but the one just written).                    *)
(***************************************************************************)
Restrict(f, S) == [k \in S |-> f[k]]

Put(cache, key, entry) ==
    [k \in DOMAIN cache \cup {key} |-> IF k = key THEN entry ELSE cache[k]]

cache_insert(cache, key, entry) ==
    LET full == Put(cache, key, entry)
    IN  IF Cardinality(DOMAIN full) <= capacity
        THEN {full}
        ELSE {Restrict(full, S) : S \in {T \in SUBSET DOMAIN full :
                  key \in T /\ Cardinality(T) = capacity}}

(***************************************************************************)
(* CacheEvent and send_to_kafka_async: the record is handed to the         *)
(* producer only when one is configured.                                   *)
(***************************************************************************)
CacheEvent(method, status, cache_status, response_size) ==
    [method |-> method, status |-> status, cache_status |-> cache_status,
     response_size |-> response_size]

send_to_kafka_async(events, event) ==
    IF kafka_producer THEN Append(events, event) ELSE events

(***************************************************************************)
(* The handler's locals, and what a handler hands back when it returns.    *)
(* ret.ret names the place it returned from.                               *)
(***************************************************************************)
NoUpstream == [status |-> 0, headers |-> NoHeaders]

Idle ==
    [pc |-> "idle", method |-> "", url |-> "", cache_key |-> "",
     upstream |-> NoUpstream]

\* A handler that answers only when an event was handed to the producer.
Return_published(me, from, cache_status, response, events, ins) ==
    [ret |-> from, method |-> me.method, url |-> me.url, cache_key |-> me.cache_key,
     upstream |-> me.upstream, cache_status |-> cache_status,
     response |-> IF events = <<>> THEN NoResponse ELSE response,
     events |-> events, inserted |-> ins]

Return(me, from, cache_status, response, events, ins) ==
    [ret |-> from, method |-> me.method, url |-> me.url, cache_key |-> me.cache_key,
     upstream |-> me.upstream, cache_status |-> cache_status, response |-> response,
     events |-> events, inserted |-> ins]

NoReturn == Return(Idle, "", "", NoResponse, <<>>, FALSE)

NoEntry == CachedResponse(0, NoHeaders, "", 0, 0)

Insertion(entry, method, url) == [entry |-> entry, method |-> method, url |-> url]

KeyQuery(m1, t1, m2, t2) ==
    [m1 |-> m1, t1 |-> t1, m2 |-> m2, t2 |-> t2,
     key1 |-> generate_cache_key(m1, uri_to_string(t1)),
     key2 |-> generate_cache_key(m2, uri_to_string(t2))]

KeyQuery0 ==
    KeyQuery("GET", Target("http", "origin", "", "/a"),
             "GET", Target("http", "origin", "", "/a"))

(***************************************************************************)
(* peers.rs: peer descriptors, their statistics and the registry.          *)
(* An f64 ratio is kept as the pair <<numerator, denominator>> it is       *)
(* computed from; the ratios compared below are far from the rounding      *)
(* error of an f64 division.                                               *)
(***************************************************************************)
MaxHits == 1
MaxMisses == 10
MaxErrors == 2

Ratio(n, d) == <<n, d>>
Greater(x, y) == x[1] * y[2] > y[1] * x[2]
Less(x, y) == x[1] * y[2] < y[1] * x[2]

\* Option<u16>::None for PeerConfig.icp_port
NoIcpPort == 0

PeerConfig(host, port, peer_type, weight, icp_port) ==
    [host |-> host, port |-> port, peer_type |-> peer_type, weight |-> weight,
     icp_port |-> icp_port]

PeerStats0 ==
    [requests |-> 0, hits |-> 0, misses |-> 0, errors |-> 0, bytes_received |-> 0]

\* record_request that counts nothing.
record_request_lost(stats) == stats

record_request(stats) == [stats EXCEPT !.requests = @ + 1]

record_hit(stats, bytes) ==
    [stats EXCEPT !.hits = @ + 1, !.bytes_received = @ + bytes]

record_miss(stats) == [stats EXCEPT !.misses = @ + 1]

record_error(stats) == [stats EXCEPT !.errors = @ + 1]

error_rate(stats) ==
    IF stats.requests = 0 THEN Ratio(0, 1) ELSE Ratio(stats.errors, stats.requests)

PeerId(config) ==
    config.peer_type \o ":" \o config.host \o ":" \o ToString(config.port)

CachePeer(config) ==
    [id |-> PeerId(config), config |-> config, healthy |-> TRUE, rtt_ms |-> 0,
     stats |-> PeerStats0]

set_healthy(peer, healthy) == [peer EXCEPT !.healthy = healthy]

update_rtt(peer, rtt) == [peer EXCEPT !.rtt_ms = rtt]

\* add_peer builds a new CachePeer and inserts it under its id, replacing
\* whatever the map held there.
add_peer(registry, config) == Put(registry, PeerId(config), CachePeer(config))

remove_peer(registry, id) == Restrict(registry, DOMAIN registry \ {id})

\* The peers the model's registries hold.  Sibling hosts are IP literals:
\* query_siblings parses host:icp_port as a socket address.
PeerConfigs ==
    <<PeerConfig("10.0.0.1", 1488, "sibling", 1, 3130),
      PeerConfig("10.0.0.2", 1488, "sibling", 1, 3130),
      PeerConfig("p1", 1488, "parent", 1, NoIcpPort),
      PeerConfig("p2", 1488, "parent", 1, NoIcpPort),
      PeerConfig("p3", 1488, "parent", 2, NoIcpPort)>>

\* HashMap::values(): an order that is fixed for given contents.
all_peers(registry) ==
    SelectSeq([i \in 1..Len(PeerConfigs) |-> PeerId(PeerConfigs[i])],
              LAMBDA id : id \in DOMAIN registry)

\* The registry's lists with no filter on the health flag.
healthy_peers_unfiltered(registry) == all_peers(registry)

healthy_peers(registry) ==
    SelectSeq(all_peers(registry), LAMBDA id : registry[id].healthy)

\* healthy_peers_by_type with no regard for the health flag.
healthy_peers_by_type_any(registry, peer_type) ==
    SelectSeq(all_peers(registry),
              LAMBDA id : registry[id].config.peer_type = peer_type)

healthy_peers_by_type(registry, peer_type) ==
    SelectSeq(healthy_peers(registry),
              LAMBDA id : registry[id].config.peer_type = peer_type)

parent_caches(registry) == healthy_peers_by_type(registry, "parent")

sibling_caches(registry) == healthy_peers_by_type(registry, "sibling")

\* health_check that lets a peer recover as soon as it is not over 0.5.
health_check_eager(registry) ==
    [id \in DOMAIN registry |->
        IF Greater(error_rate(registry[id].stats), Ratio(1, 2))
        THEN set_healthy(registry[id], FALSE)
        ELSE set_healthy(registry[id], TRUE)]

health_check(registry) ==
    [id \in DOMAIN registry |->
        LET peer == registry[id]
            rate == error_rate(peer.stats)
        IN  IF Greater(rate, Ratio(1, 2))
            THEN set_healthy(peer, FALSE)
            ELSE IF Less(rate, Ratio(1, 10)) /\ ~peer.healthy
                 THEN set_healthy(peer, TRUE)
                 ELSE peer]

(***************************************************************************)
(* hierarchy.rs: recording an interaction with a peer.                     *)
(***************************************************************************)
record_peer_hit(peer, bytes) ==
    [peer EXCEPT !.stats = record_hit(record_request(@), bytes)]

record_peer_miss(peer) ==
    [peer EXCEPT !.stats = record_miss(record_request(@))]

\* record_peer_error that leaves the health flag alone.
record_peer_error_no_flag(peer) ==
    [peer EXCEPT !.stats = record_error(record_request(@))]

record_peer_error(peer) ==
    LET recorded == [peer EXCEPT !.stats = record_error(record_request(@))]
    IN  IF Greater(error_rate(recorded.stats), Ratio(1, 2))
        THEN set_healthy(recorded, FALSE)
        ELSE recorded

(***************************************************************************)
(* selection.rs: the four selection strategies.  A peer list is a          *)
(* sequence of peer ids (Arc<CachePeer>); NoPeer is Option::None.          *)
(***************************************************************************)
NoPeer == ""

\* AtomicUsize wraps around; the width is scaled down.
USIZE == 4

Urls == {"http://x/y"}

\* DefaultHasher (SipHash-1-3, zero keys) over the bytes of the URL and 0xff,
\* reduced mod 12.
hash_url(url) ==
    CASE url = "http://x/y" -> 10    \* 13152972339384944554 mod 12
      [] url = "http://x/z" -> 5     \* 9311542551836632649 mod 12
      [] OTHER -> 0

RECURSIVE Gcd(_, _)
Gcd(a, b) == IF b = 0 THEN a ELSE Gcd(b, a % b)

Lcm(a, b) == (a * b) \div Gcd(a, b)

\* score that leaves the error rate out.
score_no_errors(peer) ==
    IF ~peer.healthy
    THEN Ratio(0, 1)
    ELSE LET num == peer.config.weight * 100
             den == 100 + peer.rtt_ms
         IN  Ratio(num \div Gcd(num, den), den \div Gcd(num, den))

\* CachePeer::score: weight x (1 - error_rate) x 1 / (1 + rtt_ms / 100).
score(peer) ==
    IF ~peer.healthy
    THEN Ratio(0, 1)
    ELSE LET rate == error_rate(peer.stats)
             num == peer.config.weight * (rate[2] - rate[1]) * 100
             den == rate[2] * (100 + peer.rtt_ms)
         IN  Ratio(num \div Gcd(num, den), den \div Gcd(num, den))

RECURSIVE CommonDenominator(_)
CommonDenominator(scores) ==
    IF scores = <<>> THEN 1
    ELSE Lcm(Head(scores)[2], CommonDenominator(Tail(scores)))

\* The scores of a list in half units of their common denominator, so that a
\* drawn value strictly between two cumulative scores is an integer too.
Scores(list, registry) ==
    LET scores == [i \in DOMAIN list |-> score(registry[list[i]])]
        d == CommonDenominator(scores)
    IN  [i \in DOMAIN list |-> 2 * scores[i][1] * (d \div scores[i][2])]

RECURSIVE Sum(_)
Sum(s) == IF s = <<>> THEN 0 ELSE Head(s) + Sum(Tail(s))

round_robin_select(list, counter) ==
    IF list = <<>> THEN NoPeer ELSE list[(counter % Len(list)) + 1]

RECURSIVE weighted_walk(_, _, _, _)
weighted_walk(list, scores, rng, i) ==
    IF i > Len(list) THEN list[Len(list)]
    ELSE IF rng <= scores[i] THEN list[i]
    ELSE weighted_walk(list, scores, rng - scores[i], i + 1)

\* rng is rand::random::<f64>() * total_score, a value in [0, total_score).
weighted_select(list, registry, rng) ==
    IF list = <<>> \/ Sum(Scores(list, registry)) = 0
    THEN NoPeer
    ELSE weighted_walk(list, Scores(list, registry), rng, 1)

\* closest_select that takes the last of the peers sharing the minimum.
closest_select_last(list, registry) ==
    LET healthy == SelectSeq(list, LAMBDA id : registry[id].healthy)
        rtt(i) == registry[healthy[i]].rtt_ms
    IN  IF healthy = <<>> THEN NoPeer
        ELSE healthy[CHOOSE i \in DOMAIN healthy :
                        \A j \in DOMAIN healthy :
                            rtt(i) <= rtt(j) /\ (j > i => rtt(j) > rtt(i))]

closest_select(list, registry) ==
    LET healthy == SelectSeq(list, LAMBDA id : registry[id].healthy)
        rtt(i) == registry[healthy[i]].rtt_ms
    IN  IF healthy = <<>> THEN NoPeer
        ELSE healthy[CHOOSE i \in DOMAIN healthy :
                        \A j \in DOMAIN healthy :
                            rtt(i) <= rtt(j) /\ (j < i => rtt(j) > rtt(i))]

hash_select(list, url) ==
    IF list = <<>> THEN NoPeer ELSE list[(hash_url(url) % Len(list)) + 1]

Strategies == {"round-robin", "weighted", "closest", "hash"}

\* A caller's tally of the select calls it made on one list: how many, how
\* often each position of the list was returned, the position returned last
\* (0: none), the peer first returned for each URL, and the value the last
\* call drew.
Tally(list, urls) ==
    [calls |-> 0, count |-> [i \in DOMAIN list |-> 0], last |-> 0,
     first |-> [url \in urls |-> NoPeer], rng |-> 0]

NoPicks == Tally(<<>>, {})

\* The values rand::random::<f64>() * total_score may take, in the units of
\* Scores; a strategy that draws nothing has the one draw 0.
Draws(strategy, list, registry) ==
    IF strategy.name = "weighted" /\ list # <<>> /\ Sum(Scores(list, registry)) # 0
    THEN 0..(Sum(Scores(list, registry)) - 1)
    ELSE {0}

\* select with a hash strategy that goes by the peers' round-trip times.
select_drawn_by_state(strategy, list, url, registry, rng) ==
    CASE strategy.name = "round-robin" -> round_robin_select(list, strategy.counter)
      [] strategy.name = "hash" -> closest_select(list, registry)
      [] strategy.name = "closest" -> closest_select(list, registry)
      [] strategy.name = "weighted" -> weighted_select(list, registry, rng)

\* SelectionStrategy::select with the value it drew.
select_drawn(strategy, list, url, registry, rng) ==
    CASE strategy.name = "round-robin" -> round_robin_select(list, strategy.counter)
      [] strategy.name = "hash" -> hash_select(list, url)
      [] strategy.name = "closest" -> closest_select(list, registry)
      [] strategy.name = "weighted" -> weighted_select(list, registry, rng)

\* SelectionStrategy::select: the peers a call may return.
select(strategy, list, url, registry) ==
    {select_drawn(strategy, list, url, registry, rng) :
         rng \in Draws(strategy, list, registry)}

\* RoundRobinStrategy's counter after a select call.
selected(strategy, list) ==
    IF strategy.name = "round-robin" /\ list # <<>>
    THEN [strategy EXCEPT !.counter = (@ + 1) % USIZE]
    ELSE strategy

(***************************************************************************)
(* icp.rs: the query client.  A datagram is kept as the message it         *)
(* carries and the address it came from.                                   *)
(***************************************************************************)
ICP_VERSION == 2

ReplyOpcodes == {"HIT", "MISS", "ERROR", "DENIED"}

IcpMessage(opcode, request_number, url) ==
    [opcode |-> opcode, version |-> ICP_VERSION, request_number |-> request_number,
     url |-> url]

IcpClient(some) == [some |-> some, request_counter |-> 1]

\* impl Clone for IcpClient: a new counter holding the value read.
clone(client) == [some |-> client.some, request_counter |-> client.request_counter]

\* "host:port".parse::<SocketAddr>() succeeds on IP literals only; NoAddr
\* is the failed parse and a missing icp_port.
NoAddr == ""
IpLiterals == {"10.0.0.1", "10.0.0.2"}

sibling_addr(peer) ==
    IF peer.config.icp_port # NoIcpPort /\ peer.config.host \in IpLiterals
    THEN peer.config.host \o ":" \o ToString(peer.config.icp_port)
    ELSE NoAddr

\* A query on the wire and a datagram in the client socket's receive queue;
\* seq is the resolve_source call the query was sent by.
Query(to, msg, seq) == [to |-> to, msg |-> msg, seq |-> seq]
Datagram(addr, msg, seq) == [addr |-> addr, msg |-> msg, seq |-> seq]

\* A spawned query_peer: waiting in recv_from, returned Ok, or timed out.
Task(peer, request_number) ==
    [peer |-> peer, request_number |-> request_number, state |-> "recv",
     response |-> "", answers |-> 0]

Latencies == {20}

(***************************************************************************)
(* hierarchy.rs: the manager and what resolve_source returns.              *)
(***************************************************************************)
max_sibling_queries == 10
MaxCalls == 2

HierarchyManager(enabled, some, name) ==
    [config |-> [enabled |-> enabled, max_sibling_queries |-> max_sibling_queries],
     icp_client |-> IcpClient(some),
     selection_strategy |-> [name |-> name, counter |-> 0]]

HierarchyResult(kind, peer) == [kind |-> kind, peer |-> peer]
OriginRequired == HierarchyResult("OriginRequired", NoPeer)
SiblingHit(peer) == HierarchyResult("SiblingHit", peer)
ParentHit(peer) == HierarchyResult("ParentHit", peer)
NoResult == HierarchyResult("", NoPeer)

NoFlags == [id \in {} |-> TRUE]

NoCall ==
    [pc |-> "idle", url |-> "", seq |-> 0, siblings |-> <<>>, flags |-> NoFlags,
     tasks |-> <<>>, hits_sent |-> {}]

\* What an operation of the hierarchy hands back: op names it; before is the
\* registry it started from, read the health flags a resolve_source read.
HierReturn(op, peer, source, c, parents, read, before) ==
    [op |-> op, peer |-> peer, source |-> source, call |-> c, parents |-> parents,
     read |-> read, before |-> before]

NoRegistry == [id \in {} |-> CachePeer(PeerConfigs[1])]

NoHierReturn == HierReturn("", NoPeer, NoResult, NoCall, <<>>, NoFlags, NoRegistry)

Take(s, n) == SubSeq(s, 1, IF Len(s) < n THEN Len(s) ELSE n)

HealthFlags(registry, peer_type) ==
    [id \in {i \in DOMAIN registry : registry[i].config.peer_type = peer_type} |->
        registry[id].healthy]

\* The model outside the hierarchy specifications: no peers, hierarchy off.
HierarchyOff ==
    /\ peers = NoRegistry
    /\ hier = HierarchyManager(FALSE, FALSE, "weighted")
    /\ call = NoCall
    /\ net = [queries |-> {}, socket |-> <<>>]
    /\ hret = NoHierReturn

(***************************************************************************)
(* icp.rs: the wire codec.  On the wire a message is a sequence of bytes;  *)
(* in a message handed to encode or returned by decode the URL is the      *)
(* sequence of its characters (the bytes themselves for ASCII).            *)
(***************************************************************************)
opcode_u8(opcode) ==
    CASE opcode = "QUERY" -> 1
      [] opcode = "HIT" -> 2
      [] opcode = "MISS" -> 3
      [] opcode = "ERROR" -> 4
      [] opcode = "DENIED" -> 22
      [] OTHER -> 0

IcpOpcode_from(value) ==
    CASE value = 1 -> "QUERY"
      [] value = 2 -> "HIT"
      [] value = 3 -> "MISS"
      [] value = 4 -> "ERROR"
      [] value = 22 -> "DENIED"
      [] OTHER -> "INVALID"

query(request_number, url) == IcpMessage("QUERY", request_number, url)
hit(request_number) == IcpMessage("HIT", request_number, <<>>)
miss(request_number) == IcpMessage("MISS", request_number, <<>>)

\* BufMut::put_u16 / put_u32 and Buf::get_u16 / get_u32: big-endian.
put_u16(n) == <<(n \div 256) % 256, n % 256>>
put_u32(n) == <<(n \div 16777216) % 256, (n \div 65536) % 256, (n \div 256) % 256, n % 256>>
get_u16(b) == b[1] * 256 + b[2]

\* get_u32 reading the least significant byte first.
get_u32_le(b) == ((b[4] * 256 + b[3]) * 256 + b[2]) * 256 + b[1]

get_u32(b) == ((b[1] * 256 + b[2]) * 256 + b[3]) * 256 + b[4]

Zeros(n) == [i \in 1..n |-> 0]

\* IcpMessage::encode; url.len() as u16 keeps the low 16 bits of the length.
encode(msg) ==
    <<opcode_u8(msg.opcode), msg.version>>
        \o put_u16(Len(msg.url) % 65536)
        \o put_u32(msg.request_number)
        \o Zeros(12)
        \o (IF msg.url # <<>> THEN msg.url \o <<0>> ELSE <<>>)

\* String::from_utf8_lossy on single bytes: a byte that is not ASCII and
\* stands alone becomes U+FFFD.
from_utf8_lossy(bytes) ==
    [i \in DOMAIN bytes |-> IF bytes[i] < 128 THEN bytes[i] ELSE 65533]

RECURSIVE trim_end_nul(_)
trim_end_nul(s) ==
    IF s # <<>> /\ s[Len(s)] = 0 THEN trim_end_nul(SubSeq(s, 1, Len(s) - 1)) ELSE s

\* Err(InvalidData) of decode.
InvalidData == [opcode |-> "InvalidData", version |-> 0, request_number |-> 0, url |-> <<>>]

\* IcpMessage::decode.
decode(data) ==
    IF Len(data) < 20
    THEN InvalidData
    ELSE LET url_len == get_u16(SubSeq(data, 3, 4))
             rest == SubSeq(data, 21, Len(data))
         IN  [opcode |-> IcpOpcode_from(data[1]),
              version |-> data[2],
              request_number |-> get_u32(SubSeq(data, 5, 8)),
              url |-> IF url_len > 0 /\ Len(rest) >= url_len
                      THEN trim_end_nul(from_utf8_lossy(SubSeq(rest, 1, url_len)))
                      ELSE <<>>]

\* What the codec was last given and what it returned; NoBytes and NoMessage
\* stand for "not yet".
NoBytes == <<>>
NoMessage == [opcode |-> "", version |-> 0, request_number |-> 0, url |-> <<>>]
NoCodec == [msg |-> NoMessage, encoded |-> NoBytes, decoded |-> NoMessage]

(***************************************************************************)
(* icp.rs: the query server.  A packet is a datagram with the address at   *)
(* its other end; msg is the message its sender encoded.                   *)
(***************************************************************************)
\* vec![0u8; 1024], the buffer recv_from fills: the rest of a longer
\* datagram is discarded.
RECV_BUF == 1024

Packet(addr, data, msg) == [addr |-> addr, data |-> data, msg |-> msg]
NoPacket == Packet(NoAddr, NoBytes, NoMessage)

IcpServer(present) ==
    [present |-> present, socket |-> <<>>, sent |-> 0,
     last |-> [handled |-> NoPacket, replies |-> <<>>]]

\* IcpServer::handle_query: the datagrams it sends for the data received.
handle_query(present, data, sender) ==
    LET q == decode(data)
        response == IF q.url \in present THEN hit(q.request_number)
                                         ELSE miss(q.request_number)
    IN  IF q = InvalidData \/ q.opcode # "QUERY"
        THEN <<>>
        ELSE <<Packet(sender, encode(response), response)>>

(***************************************************************************)
(* main.rs: the certificate mint cache.  A key pair is named by the task   *)
(* that generated it and the number of pairs that task generated before;   *)
(* a certificate is its subject, its subjectAltName list, its issuer and   *)
(* the key that signed it.                                                 *)
(***************************************************************************)
CA_NAME == "BSDM Proxy CA"
CA_KEY == "ca_key"

Certificate(cn, san, issuer, signed_by) ==
    [cn |-> cn, san |-> san, issuer |-> issuer, signed_by |-> signed_by]

\* CertificateParams::self_signed(key): the issuer is the subject and the
\* signature is made with key.
self_signed(cn, san, key_pair) == Certificate(cn, san, cn, key_pair)

CertPair(cert, key) == [cert |-> cert, key |-> key]
NoCertPair == CertPair(Certificate("", <<>>, "", ""), "")

\* CertCache::new.
CertCache ==
    [certs |-> [h \in {} |-> NoCertPair],
     ca_cert |-> self_signed(CA_NAME, <<CA_NAME>>, CA_KEY),
     ca_key |-> CA_KEY]

CertTasks == {"t1", "t2"}
Hosts == {"a.example", "b.example"}

NoMint == [pc |-> "idle", domain |-> "", minted |-> 0]

\* What a get_or_generate call returned; later: the call began after a pair
\* had been returned for its hostname; first: the first pair returned for
\* each hostname so far.
CertReturn(task, domain, pair, later, first) ==
    [task |-> task, domain |-> domain, pair |-> pair, later |-> later,
     first |-> first]

NoCertReturn == CertReturn("", "", NoCertPair, FALSE, [h \in {} |-> NoCertPair])

\* The model outside the certificate specification: no certificate was
\* asked for.
CertificatesOff ==
    /\ cert_cache = CertCache
    /\ mint = [t \in CertTasks |-> NoMint]
    /\ cret = NoCertReturn

\* The task send_to_kafka_async spawned for the events of a handler's
\* return, once producer.send(..).await has finished in it.
Send(record, outcome) == [record |-> record, outcome |-> outcome]
NoSend == Send(<<>>, "")

(***************************************************************************)
(* main.rs, extract_user_info.  A header value and the decoded credentials *)
(* are sequences of bytes; Option is a set with at most one element.       *)
(***************************************************************************)
None == {}
Some(x) == {x}

\* HeaderValue::to_str: the bytes are visible ASCII, space or tab.
to_str(value) ==
    IF \A i \in 1..Len(value) : value[i] = 9 \/ (value[i] >= 32 /\ value[i] < 127)
    THEN Some(value) ELSE None

BasicPrefix == <<66, 97, 115, 105, 99, 32>>

\* str::strip_prefix
strip_prefix(s, prefix) ==
    IF Len(s) >= Len(prefix) /\ SubSeq(s, 1, Len(prefix)) = prefix
    THEN Some(SubSeq(s, Len(prefix) + 1, Len(s))) ELSE None

\* The base64 alphabet of general_purpose::STANDARD: the 6-bit value of a
\* character, -1 for a character outside the alphabet.
Sextet(c) ==
    CASE c >= 65 /\ c <= 90 -> c - 65
      [] c >= 97 /\ c <= 122 -> c - 71
      [] c >= 48 /\ c <= 57 -> c + 4
      [] c = 43 -> 62
      [] c = 47 -> 63
      [] OTHER -> -1

Base64Char(v) ==
    CASE v <= 25 -> v + 65
      [] v <= 51 -> v + 71
      [] v <= 61 -> v - 4
      [] v = 62 -> 43
      [] OTHER -> 47

Pad == 61

\* What a client does to build the header: base64 with padding.
RECURSIVE base64_encode(_)
base64_encode(bytes) ==
    CASE Len(bytes) = 0 -> <<>>
      [] Len(bytes) = 1 ->
            <<Base64Char(bytes[1] \div 4), Base64Char((bytes[1] % 4) * 16), Pad, Pad>>
      [] Len(bytes) = 2 ->
            <<Base64Char(bytes[1] \div 4),
              Base64Char((bytes[1] % 4) * 16 + bytes[2] \div 16),
              Base64Char((bytes[2] % 16) * 4), Pad>>
      [] OTHER ->
            <<Base64Char(bytes[1] \div 4),
              Base64Char((bytes[1] % 4) * 16 + bytes[2] \div 16),
              Base64Char((bytes[2] % 16) * 4 + bytes[3] \div 64),
              Base64Char(bytes[3] % 64)>>
            \o base64_encode(SubSeq(bytes, 4, Len(bytes)))

\* general_purpose::STANDARD.decode: groups of four characters, padding
\* required and only at the end, no stray bits in the last character.
RECURSIVE base64_decode(_)
base64_decode(s) ==
    IF Len(s) = 0 THEN Some(<<>>)
    ELSE IF Len(s) < 4 THEN None
    ELSE LET a == Sextet(s[1])
             b == Sextet(s[2])
             c == Sextet(s[3])
             d == Sextet(s[4])
             last == Len(s) = 4
         IN  IF a < 0 \/ b < 0 THEN None
             ELSE IF last /\ s[3] = Pad /\ s[4] = Pad
             THEN IF b % 16 = 0 THEN Some(<<a * 4 + b \div 16>>) ELSE None
             ELSE IF c < 0 THEN None
             ELSE IF last /\ s[4] = Pad
             THEN IF c % 4 = 0
                  THEN Some(<<a * 4 + b \div 16, (b % 16) * 16 + c \div 4>>)
                  ELSE None
             ELSE IF d < 0 THEN None
             ELSE LET rest == base64_decode(SubSeq(s, 5, Len(s)))
                  IN  IF rest = None THEN None
                      ELSE Some(<<a * 4 + b \div 16, (b % 16) * 16 + c \div 4,
                                  (c % 4) * 64 + d>>
                                \o (CHOOSE r \in rest : TRUE))

\* String::from_utf8 on the credentials the model decodes: ASCII bytes, or
\* the byte 0xFF, which no UTF-8 text contains.
from_utf8(bytes) ==
    IF \A i \in 1..Len(bytes) : bytes[i] < 128 THEN Some(bytes) ELSE None

\* str::split_once(':'), its left part.
split_once_left(s) ==
    IF \E i \in 1..Len(s) : s[i] = 58
    THEN LET i == CHOOSE i \in 1..Len(s) :
                      s[i] = 58 /\ \A j \in 1..(i - 1) : s[j] # 58
         IN  Some(SubSeq(s, 1, i - 1))
    ELSE None

\* Option::and_then
and_then(opt, F(_)) == IF opt = None THEN None ELSE F(CHOOSE x \in opt : TRUE)

Basic(value) ==
    LET decoded(encoded) == base64_decode(encoded)
        text(auth_str) == and_then(and_then(and_then(strip_prefix(auth_str, BasicPrefix),
                                                     decoded), from_utf8),
                                   split_once_left)
    IN  and_then(to_str(value), text)

UserInfo(user_id, username) == [user_id |-> user_id, username |-> username]

\* extract_user_info: the header read is Authorization.
extract_user_info(headers) ==
    IF "authorization" \in DOMAIN headers
    THEN LET username == Basic(headers["authorization"])
         IN  UserInfo(username, username)
    ELSE UserInfo(None, None)

AuthQuery(headers, returned, user) ==
    [headers |-> headers, returned |-> returned, user |-> user]

NoAuth == AuthQuery([h \in {} |-> <<>>], FALSE, UserInfo(None, None))

(***************************************************************************)
(* acl.rs: the rule engine.  Domain patterns are exact ones (no '*').      *)
(***************************************************************************)
AclRule(id, enabled, priority, action, rule_type) ==
    [id |-> id, enabled |-> enabled, priority |-> priority, action |-> action,
     rule_type |-> rule_type,
     redirect_url |-> IF action = "redirect" THEN Some("http://blocked/") ELSE None]

Domain(pattern) == [kind |-> "Domain", pattern |-> pattern]
Category(cat) == [kind |-> "Category", pattern |-> cat]
TimeWindow == [kind |-> "TimeWindow", pattern |-> ""]

AclRequest(domain, category) == [domain |-> domain, category |-> category]

match_domain(domain, pattern) == domain = pattern

\* TimeWindow matches every request (acl.rs 215-218).
matches_rule(rule, request) ==
    CASE rule.rule_type.kind = "Domain" ->
            match_domain(request.domain, rule.rule_type.pattern)
      [] rule.rule_type.kind = "Category" ->
            request.category = Some(rule.rule_type.pattern)
      [] OTHER -> TRUE

AclDecision(action, rule_id, redirect_url) ==
    [action |-> action, rule_id |-> rule_id, redirect_url |-> redirect_url]

allow == AclDecision("allow", None, None)
deny(rule_id) == AclDecision("deny", Some(rule_id), None)
redirect(rule_id, url) == AclDecision("redirect", Some(rule_id), Some(url))

unwrap_or_default(opt) == IF opt = None THEN "" ELSE CHOOSE x \in opt : TRUE

\* A sort that leaves the rules in the order they came.
RECURSIVE sort_by_nothing(_)
sort_by_nothing(rules) ==
    IF rules = <<>> THEN <<>>
    ELSE <<rules[1]>> \o sort_by_nothing(Tail(rules))

\* rules.sort_by(|a, b| b.priority.cmp(&a.priority)): a stable sort by
\* descending priority, written as an insertion sort. 
RECURSIVE sort_by_priority(_)
sort_by_priority(rules) ==
    IF rules = <<>> THEN <<>>
    ELSE LET sorted == sort_by_priority(SubSeq(rules, 1, Len(rules) - 1))
             rule == rules[Len(rules)]
             ahead == {i \in 1..Len(sorted) : sorted[i].priority >= rule.priority}
             n == Cardinality(ahead)
         IN  SubSeq(sorted, 1, n) \o <<rule>> \o SubSeq(sorted, n + 1, Len(sorted))

AclEngine(rules, default_action) == [rules |-> rules, default_action |-> default_action]

add_rule(engine_, rule) ==
    [engine_ EXCEPT !.rules = sort_by_priority(Append(engine_.rules, rule))]

load_rules(engine_, rules) ==
    [engine_ EXCEPT !.rules = sort_by_priority(rules)]

decide(rule) ==
    CASE rule.action = "allow" -> allow
      [] rule.action = "deny" -> deny(rule.id)
      [] OTHER -> redirect(rule.id, unwrap_or_default(rule.redirect_url))

default_decision(default_action) ==
    CASE default_action = "allow" -> allow
      [] default_action = "deny" -> deny("default")
      [] OTHER -> redirect("default", "about:blank")

RECURSIVE check_access_from(_, _, _)
check_access_from(engine_, request, i) ==
    IF i > Len(engine_.rules) THEN default_decision(engine_.default_action)
    ELSE IF ~engine_.rules[i].enabled THEN check_access_from(engine_, request, i + 1)
    ELSE IF matches_rule(engine_.rules[i], request) THEN decide(engine_.rules[i])
    ELSE check_access_from(engine_, request, i + 1)

check_access(engine_, request) == check_access_from(engine_, request, 1)

NoAclRequest == AclRequest("", None)

\* The engine, the rules in the order they were given to it, and the last
\* request checked with its decision.
Acl(engine_, given, request, decision) ==
    [engine |-> engine_, given |-> given, request |-> request, decision |-> decision]

NoAcl == Acl(AclEngine(<<>>, "allow"), <<>>, NoAclRequest, allow)

(***************************************************************************)
(* icp.rs, query_peer on the wire: the call, the datagrams waiting in its  *)
(* socket, and what it returned.  answer is the opcode of the first valid  *)
(* reply (from the peer queried, with the request number of the query)     *)
(* that reached the socket while the call was waiting.                     *)
(***************************************************************************)
QueryPeer(state, peer, request_number, socket, response, answer, arrived) ==
    [state |-> state, peer |-> peer, request_number |-> request_number,
     socket |-> socket, response |-> response, answer |-> answer,
     arrived |-> arrived]

NoQueryPeer == QueryPeer("idle", NoAddr, 0, <<>>, "", "", 0)

(***************************************************************************)
(* hierarchy.rs, record_peer_hit, record_peer_miss and record_peer_error   *)
(* as the atomic operations they are made of.  errors is the value a task  *)
(* loaded from the errors counter in error_rate; rate is the error rate    *)
(* last computed by a task.                                                *)
(***************************************************************************)
RecTasks == {"t1", "t2"}

Recording(pc, op, errors) == [pc |-> pc, op |-> op, errors |-> errors]

NotRecording == Recording("idle", "", 0)

NoRecords == [tasks |-> [t \in RecTasks |-> NotRecording], rate |-> Ratio(0, 1)]

\* The peers resolve_source has returned to callers that have not yet
\* recorded the outcome, each with the number of the call that returned it;
\* late notes that an outcome was recorded after a later call had started.
NoHandouts == [out |-> {}, late |-> FALSE]

\* The modules that stand apart from the request engine and the hierarchy:
\* no send task is pending and no function of theirs was called.
ModulesOff ==
    /\ sends = <<>>
    /\ auth = NoAuth
    /\ acl = NoAcl
    /\ qpeer = NoQueryPeer
    /\ rec = NoRecords
    /\ handed = NoHandouts

\* The model outside the selection, codec, server, certificate and telemetry
\* specifications: nothing was tallied, encoded, decoded, received, minted
\* or sent.
ServicesOff ==
    /\ picks = NoPicks
    /\ codec = NoCodec
    /\ server = IcpServer({})
    /\ CertificatesOff
    /\ kafka = NoSend
    /\ ModulesOff

Init ==
    /\ now = 0
    /\ http_cache = [k \in {} |-> NoEntry]
    /\ kafka_producer = TRUE
    /\ req = [r \in Clients |-> Idle]
    /\ ret = NoReturn
    /\ inserted = [k \in {} |-> Insertion(NoEntry, "", "")]
    /\ keyq = KeyQuery0
    /\ HierarchyOff
    /\ ServicesOff

(***************************************************************************)
(* The wall clock, read by SystemTime::now(); it advances.                 *)
(***************************************************************************)
Tick ==
    /\ now < MaxTime
    /\ now' = now + 1
    /\ ret' = NoReturn
    /\ UNCHANGED <<http_cache, kafka_producer, req, inserted, keyq, hierarchy, services>>

(***************************************************************************)
(* handle_request, up to its first .await: build the key, look the cache   *)
(* up, and on an unexpired entry emit the event and answer from it.        *)
(***************************************************************************)
handle_request(r) ==
    /\ req[r].pc = "idle"
    /\ \E method \in Methods, target \in Targets :
         LET url == uri_to_string(target)
             cache_key == generate_cache_key(method, url)
             me == [Idle EXCEPT !.method = method, !.url = url,
                                !.cache_key = cache_key]
         IN  IF cache_key \in DOMAIN http_cache /\ ~is_expired(http_cache[cache_key])
             THEN LET cached == http_cache[cache_key]
                      event == CacheEvent(method, cached.status, "HIT", Len(cached.body))
                  IN  /\ ret' = Return(me, "hit", "HIT", to_response(cached),
                                       send_to_kafka_async(<<>>, event), FALSE)
                      /\ req' = req
             ELSE /\ req' = [req EXCEPT ![r] = [me EXCEPT !.pc = "collect_body"]]
                  /\ ret' = NoReturn
    /\ UNCHANGED <<now, http_cache, kafka_producer, inserted, keyq, hierarchy, services>>

\* BodyExt::collect(body).await? : the request body arrives, or the read fails
\* and the handler returns the error.
collect_request_body(r) ==
    /\ req[r].pc = "collect_body"
    /\ \E ok \in BOOLEAN :
         IF ok
         THEN /\ req' = [req EXCEPT ![r].pc = "upstream"]
              /\ ret' = NoReturn
         ELSE /\ req' = [req EXCEPT ![r] = Idle]
              /\ ret' = Return(req[r], "body_error", "", NoResponse, <<>>, FALSE)
    /\ UNCHANGED <<now, http_cache, kafka_producer, inserted, keyq, hierarchy, services>>

\* A handler that admits the response when its status and headers arrive,
\* before the body is collected.
upstream_response_admits(r) ==
    /\ req[r].pc = "upstream"
    /\ \E status \in UpstreamStatuses, headers \in UpstreamHeaders :
         /\ req' = [req EXCEPT ![r].pc = "collect_response",
                               ![r].upstream = [status |-> status, headers |-> headers]]
         /\ IF is_cacheable(req[r].method, status, 0)
            THEN http_cache' \in cache_insert(http_cache, req[r].cache_key,
                     CachedResponse(status, headers, "", now, default_ttl))
            ELSE http_cache' = http_cache
    /\ ret' = NoReturn
    /\ UNCHANGED <<now, kafka_producer, inserted, keyq, hierarchy, services>>

\* self.http_client.request(req).await, Ok(response): status and headers.
upstream_response(r) ==
    /\ req[r].pc = "upstream"
    /\ \E status \in UpstreamStatuses, headers \in UpstreamHeaders :
         req' = [req EXCEPT ![r].pc = "collect_response",
                            ![r].upstream = [status |-> status, headers |-> headers]]
    /\ ret' = NoReturn
    /\ UNCHANGED <<now, http_cache, kafka_producer, inserted, keyq, hierarchy, services>>

\* self.http_client.request(req).await, Err(e): 502 Bad Gateway.
upstream_error(r) ==
    /\ req[r].pc = "upstream"
    /\ req' = [req EXCEPT ![r] = Idle]
    /\ ret' = Return(req[r], "upstream_error", "",
                     Response(502, NoHeaders, "502 Bad Gateway"), <<>>, FALSE)
    /\ UNCHANGED <<now, http_cache, kafka_producer, inserted, keyq, hierarchy, services>>

\* The response body is collected; then admission, event and response.
upstream_body(r) ==
    /\ req[r].pc = "collect_response"
    /\ \E body_bytes \in UpstreamBodies :
         LET me == req[r]
             status == me.upstream.status
             headers_map == me.upstream.headers
             body_size == Len(body_bytes)
             admit == is_cacheable(me.method, status, body_size)
             cache_status == IF admit THEN "MISS" ELSE "BYPASS"
             cached_response ==
                 CachedResponse(status, headers_map, body_bytes, now, default_ttl)
             event == CacheEvent(me.method, status, cache_status, body_size)
         IN  /\ IF admit
                THEN /\ http_cache' \in cache_insert(http_cache, me.cache_key, cached_response)
                     /\ inserted' = Put(inserted, me.cache_key,
                                        Insertion(cached_response, me.method, me.url))
                ELSE UNCHANGED <<http_cache, inserted>>
             /\ ret' = Return(me, "upstream_ok", cache_status,
                              Response(status, headers_map, body_bytes),
                              send_to_kafka_async(<<>>, event), admit)
    /\ req' = [req EXCEPT ![r] = Idle]
    /\ UNCHANGED <<now, kafka_producer, keyq, hierarchy, services>>

\* BodyExt::collect(response.into_body()).await? fails: the error is returned.
upstream_body_error(r) ==
    /\ req[r].pc = "collect_response"
    /\ req' = [req EXCEPT ![r] = Idle]
    /\ ret' = Return(req[r], "body_error", "", NoResponse, <<>>, FALSE)
    /\ UNCHANGED <<now, http_cache, kafka_producer, inserted, keyq, hierarchy, services>>

(***************************************************************************)
(* handle_connection, CONNECT: the tunnel task is spawned and the service  *)
(* answers 200 at once; the task upgrades the connection, connects to the  *)
(* authority and splices until one side closes.                            *)
(***************************************************************************)
Authorities == {"origin:443"}
TunnelBytes == {0, 2}

connect(r) ==
    /\ req[r].pc = "idle"
    /\ \E authority \in Authorities :
         LET me == [Idle EXCEPT !.pc = "tunnel_upgrade", !.method = "CONNECT",
                                !.url = authority]
         IN  /\ req' = [req EXCEPT ![r] = me]
             /\ ret' = Return(me, "connect", "", Response(200, NoHeaders, ""),
                              <<>>, FALSE)
    /\ UNCHANGED <<now, http_cache, kafka_producer, inserted, keyq, hierarchy, services>>

\* hyper::upgrade::on(req).await
tunnel_upgrade(r) ==
    /\ req[r].pc = "tunnel_upgrade"
    /\ \E ok \in BOOLEAN :
         IF ok
         THEN /\ req' = [req EXCEPT ![r].pc = "tunnel_connect"]
              /\ ret' = NoReturn
         ELSE /\ req' = [req EXCEPT ![r] = Idle]
              /\ ret' = Return(req[r], "upgrade_failed", "", NoResponse, <<>>, FALSE)
    /\ UNCHANGED <<now, http_cache, kafka_producer, inserted, keyq, hierarchy, services>>

\* TcpStream::connect(&authority).await
tunnel_connect(r) ==
    /\ req[r].pc = "tunnel_connect"
    /\ \E ok \in BOOLEAN :
         IF ok
         THEN /\ req' = [req EXCEPT ![r].pc = "tunnel_copy"]
              /\ ret' = NoReturn
         ELSE /\ req' = [req EXCEPT ![r] = Idle]
              /\ ret' = Return(req[r], "connect_failed", "", NoResponse, <<>>, FALSE)
    /\ UNCHANGED <<now, http_cache, kafka_producer, inserted, keyq, hierarchy, services>>

\* copy_bidirectional(..).await, Ok((bytes_c2u, bytes_u2c)): the event is sent.
tunnel_closed(r) ==
    /\ req[r].pc = "tunnel_copy"
    /\ \E bytes_u2c \in TunnelBytes :
         LET me == [req[r] EXCEPT
                       !.cache_key = generate_cache_key("CONNECT", req[r].url)]
             event == CacheEvent("CONNECT", 200, "BYPASS", bytes_u2c)
         IN  ret' = Return(me, "tunnel_closed", "BYPASS", NoResponse,
                           send_to_kafka_async(<<>>, event), FALSE)
    /\ req' = [req EXCEPT ![r] = Idle]
    /\ UNCHANGED <<now, http_cache, kafka_producer, inserted, keyq, hierarchy, services>>

\* copy_bidirectional(..).await, Err(e): logged, nothing is sent.
tunnel_copy_failed(r) ==
    /\ req[r].pc = "tunnel_copy"
    /\ req' = [req EXCEPT ![r] = Idle]
    /\ ret' = Return(req[r], "copy_failed", "", NoResponse, <<>>, FALSE)
    /\ UNCHANGED <<now, http_cache, kafka_producer, inserted, keyq, hierarchy, services>>

Next ==
    \/ Tick
    \/ \E r \in Clients : handle_request(r)
    \/ \E r \in Clients : collect_request_body(r)
    \/ \E r \in Clients : upstream_response(r)
    \/ \E r \in Clients : upstream_error(r)
    \/ \E r \in Clients : upstream_body(r)
    \/ \E r \in Clients : upstream_body_error(r)
    \/ \E r \in Clients : connect(r)
    \/ \E r \in Clients : tunnel_upgrade(r)
    \/ \E r \in Clients : tunnel_connect(r)
    \/ \E r \in Clients : tunnel_closed(r)
    \/ \E r \in Clients : tunnel_copy_failed(r)

Spec == Init /\ [][Next]_vars

(***************************************************************************)
(* generate_cache_key on its own: two requests, their keys side by side.   *)
(***************************************************************************)
KeyMethods == {"GET", "POST"}

KeyInit ==
    /\ now = 0
    /\ http_cache = [k \in {} |-> NoEntry]
    /\ kafka_producer = TRUE
    /\ req = [r \in Clients |-> Idle]
    /\ ret = NoReturn
    /\ inserted = [k \in {} |-> Insertion(NoEntry, "", "")]
    /\ \E m1 \in KeyMethods, t1 \in KeyTargets : keyq = KeyQuery(m1, t1, m1, t1)
    /\ HierarchyOff
    /\ ServicesOff

key_query ==
    /\ \E m2 \in KeyMethods, t2 \in KeyTargets :
         keyq' = KeyQuery(keyq.m1, keyq.t1, m2, t2)
    /\ UNCHANGED <<now, http_cache, kafka_producer, req, ret, inserted, hierarchy, services>>

KeyNext == key_query

KeySpec == KeyInit /\ [][KeyNext]_vars

(***************************************************************************)
(* The peer registry on its own: peers are added and removed, the engine   *)
(* records its interactions with them, and health_check runs.              *)
(***************************************************************************)
HitBytes == {1024}

PeerInit ==
    /\ now = 0
    /\ http_cache = [k \in {} |-> NoEntry]
    /\ kafka_producer = TRUE
    /\ req = [r \in Clients |-> Idle]
    /\ ret = NoReturn
    /\ inserted = [k \in {} |-> Insertion(NoEntry, "", "")]
    /\ keyq = KeyQuery0
    /\ peers = NoRegistry
    /\ hier = HierarchyManager(FALSE, FALSE, "weighted")
    /\ call = NoCall
    /\ net = [queries |-> {}, socket |-> <<>>]
    /\ hret = NoHierReturn
    /\ ServicesOff

\* The configurations the registry specification adds: one sibling, one parent.
RegistryConfigs == {PeerConfigs[1], PeerConfigs[3]}

registry_add_peer ==
    /\ \E config \in RegistryConfigs :
         /\ peers' = add_peer(peers, config)
         /\ hret' = HierReturn("add_peer", PeerId(config), NoResult, NoCall, <<>>,
                               NoFlags, peers)
    /\ UNCHANGED <<engine, services, hier, call, net>>

registry_remove_peer ==
    /\ \E id \in DOMAIN peers :
         /\ peers' = remove_peer(peers, id)
         /\ hret' = HierReturn("remove_peer", id, NoResult, NoCall, <<>>,
                               NoFlags, peers)
    /\ UNCHANGED <<engine, services, hier, call, net>>

peer_hit ==
    /\ \E id \in DOMAIN peers, bytes \in HitBytes :
         /\ peers[id].stats.hits < MaxHits
         /\ peers' = [peers EXCEPT ![id] = record_peer_hit(@, bytes)]
         /\ hret' = HierReturn("record_peer_hit", id, NoResult, NoCall, <<>>,
                               NoFlags, peers)
    /\ UNCHANGED <<engine, services, hier, call, net>>

peer_miss ==
    /\ \E id \in DOMAIN peers :
         /\ peers[id].stats.misses < MaxMisses
         /\ peers' = [peers EXCEPT ![id] = record_peer_miss(@)]
         /\ hret' = HierReturn("record_peer_miss", id, NoResult, NoCall, <<>>,
                               NoFlags, peers)
    /\ UNCHANGED <<engine, services, hier, call, net>>

peer_error ==
    /\ \E id \in DOMAIN peers :
         /\ peers[id].stats.errors < MaxErrors
         /\ peers' = [peers EXCEPT ![id] = record_peer_error(@)]
         /\ hret' = HierReturn("record_peer_error", id, NoResult, NoCall, <<>>,
                               NoFlags, peers)
    /\ UNCHANGED <<engine, services, hier, call, net>>

registry_health_check ==
    /\ peers' = health_check(peers)
    /\ hret' = HierReturn("health_check", NoPeer, NoResult, NoCall, <<>>,
                          NoFlags, peers)
    /\ UNCHANGED <<engine, services, hier, call, net>>

PeerNext ==
    \/ registry_add_peer
    \/ registry_remove_peer
    \/ peer_hit
    \/ peer_miss
    \/ peer_error
    \/ registry_health_check

PeerSpec == PeerInit /\ [][PeerNext]_vars

(***************************************************************************)
(* The hierarchy resolver: resolve_source calls made one after another on  *)
(* a manager over one sibling and two parents, the sibling answering ICP   *)
(* queries when it pleases, and the engine recording failed fetches from   *)
(* peers that are still healthy.                                           *)
(***************************************************************************)
HierInit ==
    /\ now = 0
    /\ http_cache = [k \in {} |-> NoEntry]
    /\ kafka_producer = TRUE
    /\ req = [r \in Clients |-> Idle]
    /\ ret = NoReturn
    /\ inserted = [k \in {} |-> Insertion(NoEntry, "", "")]
    /\ keyq = KeyQuery0
    /\ peers = add_peer(add_peer(add_peer(NoRegistry, PeerConfigs[1]),
                   PeerConfigs[3]), PeerConfigs[4])
    /\ \E enabled \in BOOLEAN, some \in BOOLEAN, name \in Strategies :
         hier = HierarchyManager(enabled, some, name)
    /\ call = NoCall
    /\ net = [queries |-> {}, socket |-> <<>>]
    /\ hret = NoHierReturn
    /\ ServicesOff

\* resolve_source up to the first suspension of query_peers: the queries of
\* the fan-out are sent, each by a clone of the client.
resolve_source ==
    /\ call.pc = "idle"
    /\ call.seq < MaxCalls
    /\ \E url \in Urls :
         LET me == [NoCall EXCEPT !.url = url, !.seq = call.seq + 1]
             siblings == sibling_caches(peers)
             sibling_addrs ==
                 Take(SelectSeq([i \in DOMAIN siblings |-> sibling_addr(peers[siblings[i]])],
                                LAMBDA addr : addr # NoAddr),
                      hier.config.max_sibling_queries)
             tasks == [i \in DOMAIN sibling_addrs |->
                          Task(sibling_addrs[i], clone(hier.icp_client).request_counter)]
             queries == {Query(tasks[i].peer,
                               IcpMessage("QUERY", tasks[i].request_number, url),
                               me.seq) : i \in DOMAIN tasks}
         IN  IF ~hier.config.enabled
             THEN /\ hret' = HierReturn("resolve_source", NoPeer, OriginRequired, me,
                                        <<>>, NoFlags, peers)
                  /\ call' = [me EXCEPT !.url = ""]
                  /\ net' = net
             ELSE /\ hret' = NoHierReturn
                  /\ IF ~hier.icp_client.some
                     THEN /\ call' = [me EXCEPT !.pc = "select_parent"]
                          /\ net' = net
                     ELSE IF sibling_addrs = <<>>
                     THEN /\ call' = [me EXCEPT !.pc = "select_parent",
                                                !.siblings = siblings,
                                                !.flags = HealthFlags(peers, "sibling")]
                          /\ net' = net
                     ELSE /\ call' = [me EXCEPT !.pc = "query_peers",
                                                !.siblings = siblings,
                                                !.flags = HealthFlags(peers, "sibling"),
                                                !.tasks = tasks]
                          /\ net' = [net EXCEPT !.queries = @ \cup queries]
    /\ UNCHANGED <<engine, services, peers, hier>>

\* The fan-out of call seq is in progress and its deadline has not passed.
BeforeDeadline(seq) ==
    /\ call.pc = "query_peers"
    /\ call.seq = seq
    /\ \A i \in DOMAIN call.tasks : call.tasks[i].state # "timeout"

\* A sibling answers a query it received: the reply echoes the request number.
\* hits_sent notes the siblings whose HIT for the call in progress was sent
\* before the deadline.
sibling_reply ==
    /\ \E q \in net.queries, opcode \in ReplyOpcodes :
         /\ net' = [queries |-> net.queries \ {q},
                    socket |-> Append(net.socket,
                        Datagram(q.to, IcpMessage(opcode, q.msg.request_number, ""),
                                 q.seq))]
         /\ call' = IF opcode = "HIT" /\ BeforeDeadline(q.seq)
                    THEN [call EXCEPT !.hits_sent = @ \cup {q.to}]
                    ELSE call
    /\ hret' = NoHierReturn
    /\ UNCHANGED <<engine, services, peers, hier>>

\* query_peer, one turn of its receive loop: the task takes the next datagram
\* of the shared socket and keeps it only if the sender is its peer and the
\* request number is its own.
recv_from ==
    /\ call.pc = "query_peers"
    /\ net.socket # <<>>
    /\ \E i \in DOMAIN call.tasks :
         LET task == call.tasks[i]
             d == Head(net.socket)
         IN  /\ task.state = "recv"
             /\ call' = IF d.addr = task.peer
                           /\ d.msg.request_number = task.request_number
                        THEN [call EXCEPT !.tasks[i].state = "ok",
                                          !.tasks[i].response = d.msg.opcode,
                                          !.tasks[i].answers = d.seq]
                        ELSE call
    /\ net' = [net EXCEPT !.socket = Tail(@)]
    /\ hret' = NoHierReturn
    /\ UNCHANGED <<engine, services, peers, hier>>

\* icp_timeout elapses: every query_peer still waiting returns TimedOut.  A
\* datagram already in the socket is received first.
icp_timeout ==
    /\ call.pc = "query_peers"
    /\ net.socket = <<>>
    /\ \E i \in DOMAIN call.tasks : call.tasks[i].state = "recv"
    /\ call' = [call EXCEPT !.tasks =
                   [i \in DOMAIN call.tasks |->
                       IF call.tasks[i].state = "recv"
                       THEN [call.tasks[i] EXCEPT !.state = "timeout"]
                       ELSE call.tasks[i]]]
    /\ hret' = NoHierReturn
    /\ UNCHANGED <<engine, services, peers, hier, net>>

\* query_peers has awaited every task; query_siblings looks for the first
\* HIT among the results and the sibling it came from.
query_siblings ==
    /\ call.pc = "query_peers"
    /\ \A i \in DOMAIN call.tasks : call.tasks[i].state # "recv"
    /\ LET results == SelectSeq(call.tasks, LAMBDA t : t.state = "ok")
           hits == SelectSeq(results, LAMBDA t : t.response = "HIT")
           found == SelectSeq(hits, LAMBDA t :
                        \E j \in DOMAIN call.siblings :
                            sibling_addr(peers[call.siblings[j]]) = t.peer)
           sibling ==
               call.siblings[CHOOSE j \in DOMAIN call.siblings :
                   /\ sibling_addr(peers[call.siblings[j]]) = found[1].peer
                   /\ \A k \in 1..(j - 1) :
                          sibling_addr(peers[call.siblings[k]]) # found[1].peer]
       IN  IF found # <<>>
           THEN /\ \E latency \in Latencies :
                     peers' = [peers EXCEPT ![sibling] = update_rtt(@, latency)]
                /\ hret' = HierReturn("resolve_source", NoPeer, SiblingHit(sibling),
                                      call, <<>>, call.flags, peers)
                /\ call' = [NoCall EXCEPT !.seq = call.seq]
           ELSE /\ call' = [call EXCEPT !.pc = "select_parent"]
                /\ hret' = NoHierReturn
                /\ peers' = peers
    /\ UNCHANGED <<engine, services, hier, net>>

\* select_parent and the return of resolve_source.
select_parent ==
    /\ call.pc = "select_parent"
    /\ LET parents == parent_caches(peers)
       IN  \E pick \in select(hier.selection_strategy, parents, call.url, peers) :
             /\ hret' = HierReturn("resolve_source", NoPeer,
                                   IF pick = NoPeer THEN OriginRequired
                                                    ELSE ParentHit(pick),
                                   call, parents, HealthFlags(peers, "parent"), peers)
             /\ hier' = [hier EXCEPT !.selection_strategy = selected(@, parents)]
    /\ call' = [NoCall EXCEPT !.seq = call.seq]
    /\ UNCHANGED <<engine, services, peers, net>>

\* A fetch from a peer that is still healthy fails and the engine records it.
fetch_failed ==
    /\ \E id \in DOMAIN peers :
         /\ peers[id].healthy
         /\ peers' = [peers EXCEPT ![id] = record_peer_error(@)]
    /\ hret' = NoHierReturn
    /\ UNCHANGED <<engine, services, hier, call, net>>

HierNext ==
    \/ resolve_source
    \/ sibling_reply
    \/ recv_from
    \/ icp_timeout
    \/ query_siblings
    \/ select_parent
    \/ fetch_failed

HierSpec == HierInit /\ [][HierNext]_vars

(***************************************************************************)
(* The sibling fan-out: an enabled manager with an ICP client over two     *)
(* siblings and no parent.                                                 *)
(***************************************************************************)
IcpInit ==
    /\ now = 0
    /\ http_cache = [k \in {} |-> NoEntry]
    /\ kafka_producer = TRUE
    /\ req = [r \in Clients |-> Idle]
    /\ ret = NoReturn
    /\ inserted = [k \in {} |-> Insertion(NoEntry, "", "")]
    /\ keyq = KeyQuery0
    /\ peers = add_peer(add_peer(NoRegistry, PeerConfigs[1]), PeerConfigs[2])
    /\ hier = HierarchyManager(TRUE, TRUE, "weighted")
    /\ call = NoCall
    /\ net = [queries |-> {}, socket |-> <<>>]
    /\ hret = NoHierReturn
    /\ ServicesOff

IcpNext ==
    \/ resolve_source
    \/ sibling_reply
    \/ recv_from
    \/ icp_timeout
    \/ query_siblings
    \/ select_parent

IcpSpec == IcpInit /\ [][IcpNext]_vars

(***************************************************************************)
(* The selection strategies on their own: select is called on lists of     *)
(* three parents whose round-trip times and health flags change between    *)
(* the calls.  A parent starts fresh or with one hit and one error         *)
(* recorded, which leaves it healthy at an error rate of one half.         *)
(***************************************************************************)
Rtts == {0, 100}

Histories(peer) ==
    {peer, record_peer_error(record_peer_hit(peer, 1024))}

SelRegistry ==
    add_peer(add_peer(add_peer(NoRegistry, PeerConfigs[3]), PeerConfigs[4]),
             PeerConfigs[5])

\* The lists select is called with: none, every parent, and two of them in
\* another order.
SelLists ==
    {<<>>, all_peers(SelRegistry),
     <<PeerId(PeerConfigs[5]), PeerId(PeerConfigs[3])>>}

SelInit ==
    /\ now = 0
    /\ http_cache = [k \in {} |-> NoEntry]
    /\ kafka_producer = TRUE
    /\ req = [r \in Clients |-> Idle]
    /\ ret = NoReturn
    /\ inserted = [k \in {} |-> Insertion(NoEntry, "", "")]
    /\ keyq = KeyQuery0
    /\ peers \in [DOMAIN SelRegistry -> UNION {Histories(SelRegistry[id]) :
                                                  id \in DOMAIN SelRegistry}]
    /\ \A id \in DOMAIN peers : peers[id] \in Histories(SelRegistry[id])
    /\ \E name \in Strategies : hier = HierarchyManager(TRUE, FALSE, name)
    /\ call = NoCall
    /\ net = [queries |-> {}, socket |-> <<>>]
    /\ hret = NoHierReturn
    /\ picks = NoPicks
    /\ codec = NoCodec
    /\ server = IcpServer({})
    /\ CertificatesOff
    /\ kafka = NoSend
    /\ ModulesOff

peer_update_rtt ==
    /\ \E id \in DOMAIN peers, rtt \in Rtts :
         /\ rtt # peers[id].rtt_ms
         /\ peers' = [peers EXCEPT ![id] = update_rtt(@, rtt)]
    /\ hret' = NoHierReturn
    /\ UNCHANGED <<engine, services, hier, call, net>>

\* One select call; the value drawn is noted in picks.
strategy_select ==
    /\ \E list \in SelLists, url \in Urls :
         \E rng \in Draws(hier.selection_strategy, list, peers) :
           /\ hret' = HierReturn("select",
                          select_drawn(hier.selection_strategy, list, url, peers, rng),
                          NoResult, [NoCall EXCEPT !.url = url], list, NoFlags, peers)
           /\ hier' = [hier EXCEPT !.selection_strategy = selected(@, list)]
           /\ picks' = [picks EXCEPT !.rng = rng]
    /\ UNCHANGED <<engine, peers, call, net, codec, server, certificates, kafka, modules>>

SelNext ==
    \/ strategy_select
    \/ peer_update_rtt
    \/ fetch_failed

SelSpec == SelInit /\ [][SelNext]_vars

(***************************************************************************)
(* A caller that tallies what select returns on one unchanged list of      *)
(* three parents (selection.rs, test_round_robin and test_hash_consistency)*)
(* while the peers' round-trip times and health flags change.              *)
(***************************************************************************)
MaxSelects == 5

TallyUrls == {"http://x/y", "http://x/z"}

TallyInit ==
    /\ now = 0
    /\ http_cache = [k \in {} |-> NoEntry]
    /\ kafka_producer = TRUE
    /\ req = [r \in Clients |-> Idle]
    /\ ret = NoReturn
    /\ inserted = [k \in {} |-> Insertion(NoEntry, "", "")]
    /\ keyq = KeyQuery0
    /\ peers = SelRegistry
    /\ \E name \in {"round-robin", "hash"} : hier = HierarchyManager(TRUE, FALSE, name)
    /\ call = NoCall
    /\ net = [queries |-> {}, socket |-> <<>>]
    /\ hret = NoHierReturn
    /\ picks = Tally(all_peers(SelRegistry), TallyUrls)
    /\ codec = NoCodec
    /\ server = IcpServer({})
    /\ CertificatesOff
    /\ kafka = NoSend
    /\ ModulesOff

Position(list, id) == CHOOSE i \in DOMAIN list : list[i] = id

tallied_select ==
    /\ picks.calls < MaxSelects
    /\ \E url \in TallyUrls :
         LET list == all_peers(peers)
             pick == select_drawn(hier.selection_strategy, list, url, peers, 0)
         IN  /\ hret' = HierReturn("select", pick, NoResult,
                                   [NoCall EXCEPT !.url = url], list, NoFlags, peers)
             /\ hier' = [hier EXCEPT !.selection_strategy = selected(@, list)]
             /\ picks' = [picks EXCEPT
                            !.calls = @ + 1,
                            !.count[Position(list, pick)] = @ + 1,
                            !.last = Position(list, pick),
                            !.first[url] = IF @ = NoPeer THEN pick ELSE @]
    /\ UNCHANGED <<engine, peers, call, net, codec, server, certificates, kafka, modules>>

TallyNext ==
    \/ tallied_select
    \/ peer_update_rtt
    \/ fetch_failed

TallySpec == TallyInit /\ [][TallyNext]_vars

(***************************************************************************)
(* The wire codec on its own: messages built by IcpMessage::query, hit and *)
(* miss are encoded, and what encode returned is decoded.                  *)
(***************************************************************************)
\* Request numbers are u32; the values drawn spread over the four bytes.
RequestNumbers == {0, 1, 513, 66051, 2147483647}

\* The URLs of the queries: every string of up to two of the characters '/'
\* and 'a', one of three, and a string that ends in a NUL character.
CodecUrls ==
    {<<>>, <<97, 0>>, <<97, 47, 97>>} \cup {<<a>> : a \in {47, 97}}
        \cup {<<a, b>> : a \in {47, 97}, b \in {47, 97}}

CodecMessages ==
    {query(n, url) : n \in RequestNumbers, url \in CodecUrls}
        \cup {hit(n) : n \in RequestNumbers}
        \cup {miss(n) : n \in RequestNumbers}

CodecInit ==
    /\ now = 0
    /\ http_cache = [k \in {} |-> NoEntry]
    /\ kafka_producer = TRUE
    /\ req = [r \in Clients |-> Idle]
    /\ ret = NoReturn
    /\ inserted = [k \in {} |-> Insertion(NoEntry, "", "")]
    /\ keyq = KeyQuery0
    /\ HierarchyOff
    /\ ServicesOff

icp_encode ==
    /\ \E msg \in CodecMessages :
         codec' = [msg |-> msg, encoded |-> encode(msg), decoded |-> NoMessage]
    /\ UNCHANGED <<engine, hierarchy, picks, server, certificates, kafka, modules>>

icp_decode ==
    /\ codec.encoded # NoBytes
    /\ codec' = [codec EXCEPT !.decoded = decode(codec.encoded)]
    /\ UNCHANGED <<engine, hierarchy, picks, server, certificates, kafka, modules>>

CodecNext ==
    \/ icp_encode
    \/ icp_decode

CodecSpec == CodecInit /\ [][CodecNext]_vars

(***************************************************************************)
(* The query server and the datagrams sent to it: queries that query_peer  *)
(* encodes and sends, and datagrams from elsewhere that are no queries.    *)
(***************************************************************************)
MaxDatagrams == 2

ClientAddr == "10.0.0.9:40000"
StrangerAddr == "10.0.0.7:3130"

LongUrl(n) == [i \in 1..n |-> 97]

\* The URLs queried: two short ones, one of 1001 and one of 1005 characters.
QueryUrls == {<<97>>, <<47, 97>>, LongUrl(1001), LongUrl(1005)}

\* What arrives that is no query: a HIT, and five bytes of anything.
Strays ==
    {Packet(StrangerAddr, encode(hit(1)), hit(1)),
     Packet(StrangerAddr, <<1, 2, 0, 0, 0>>, NoMessage)}

WireInit ==
    /\ now = 0
    /\ http_cache = [k \in {} |-> NoEntry]
    /\ kafka_producer = TRUE
    /\ req = [r \in Clients |-> Idle]
    /\ ret = NoReturn
    /\ inserted = [k \in {} |-> Insertion(NoEntry, "", "")]
    /\ keyq = KeyQuery0
    /\ HierarchyOff
    /\ picks = NoPicks
    /\ codec = NoCodec
    /\ \E present \in SUBSET {<<97>>, LongUrl(1005)} : server = IcpServer(present)
    /\ CertificatesOff
    /\ kafka = NoSend
    /\ ModulesOff

\* query_peer up to send_to: the query is built, encoded and sent.
query_peer_send ==
    /\ server.sent < MaxDatagrams
    /\ \E url \in QueryUrls, request_number \in {1, 513} :
         LET msg == query(request_number, url)
         IN  server' = [server EXCEPT
                          !.socket = Append(@, Packet(ClientAddr, encode(msg), msg)),
                          !.sent = @ + 1]
    /\ UNCHANGED <<engine, hierarchy, picks, codec, certificates, kafka, modules>>

stray_datagram ==
    /\ server.sent < MaxDatagrams
    /\ \E packet \in Strays :
         server' = [server EXCEPT !.socket = Append(@, packet), !.sent = @ + 1]
    /\ UNCHANGED <<engine, hierarchy, picks, codec, certificates, kafka, modules>>

\* IcpServer::serve, one turn of its loop, and the handle_query it spawns.
serve ==
    /\ server.socket # <<>>
    /\ LET packet == Head(server.socket)
           data == Take(packet.data, RECV_BUF)
       IN  server' = [server EXCEPT
                        !.socket = Tail(@),
                        !.last = [handled |-> packet,
                                  replies |-> handle_query(server.present, data,
                                                           packet.addr)]]
    /\ UNCHANGED <<engine, hierarchy, picks, codec, certificates, kafka, modules>>

WireNext ==
    \/ query_peer_send
    \/ stray_datagram
    \/ serve

WireSpec == WireInit /\ [][WireNext]_vars

(***************************************************************************)
(* The certificate mint cache: TLS tasks call get_or_generate for two      *)
(* hostnames.  The steps of a call are the pieces between its .await       *)
(* points: up to the release of the read lock, and from the acquisition of *)
(* the write lock on.                                                      *)
(***************************************************************************)
MaxMints == 2

CertInit ==
    /\ now = 0
    /\ http_cache = [k \in {} |-> NoEntry]
    /\ kafka_producer = TRUE
    /\ req = [r \in Clients |-> Idle]
    /\ ret = NoReturn
    /\ inserted = [k \in {} |-> Insertion(NoEntry, "", "")]
    /\ keyq = KeyQuery0
    /\ HierarchyOff
    /\ ServicesOff

\* The first pair get_or_generate returned for each hostname.
FirstReturned(domain, pair) ==
    IF domain \in DOMAIN cret.first THEN cret.first ELSE Put(cret.first, domain, pair)

\* get_or_generate under the read lock: a cached pair is returned.
get_or_generate(t) ==
    /\ mint[t].pc = "idle"
    /\ \E domain \in Hosts :
         IF domain \in DOMAIN cert_cache.certs
         THEN /\ cret' = CertReturn(t, domain, cert_cache.certs[domain],
                                    domain \in DOMAIN cret.first,
                                    FirstReturned(domain, cert_cache.certs[domain]))
              /\ mint' = mint
         ELSE /\ mint[t].minted < MaxMints
              /\ mint' = [mint EXCEPT ![t].pc = "generate", ![t].domain = domain]
              /\ cret' = [cret EXCEPT !.task = "", !.domain = "", !.pair = NoCertPair,
                                      !.later = FALSE]
    /\ UNCHANGED <<engine, hierarchy, picks, codec, server, cert_cache, kafka, modules>>

\* get_or_generate after a miss: a key pair is generated, the certificate
\* is built and signed, and the pair is inserted under the write lock.  The
\* call began when the cache held no pair for the hostname, so before any
\* pair was returned for it.
generate(t) ==
    /\ mint[t].pc = "generate"
    /\ LET domain == mint[t].domain
           key_pair == t \o "#" \o ToString(mint[t].minted + 1)
           cert_pair == CertPair(self_signed(domain, <<domain>>, key_pair), key_pair)
       IN  /\ cert_cache' = [cert_cache EXCEPT !.certs = Put(@, domain, cert_pair)]
           /\ cret' = CertReturn(t, domain, cert_pair, FALSE,
                                 FirstReturned(domain, cert_pair))
    /\ mint' = [mint EXCEPT ![t] = [NoMint EXCEPT !.minted = mint[t].minted + 1]]
    /\ UNCHANGED <<engine, hierarchy, picks, codec, server, kafka, modules>>

CertNext ==
    \/ \E t \in CertTasks : get_or_generate(t)
    \/ \E t \in CertTasks : generate(t)

CertSpec == CertInit /\ [][CertNext]_vars

(***************************************************************************)
(* The request engine with its event emitter: no producer is configured,   *)
(* or one is and the send task that send_to_kafka_async spawned for a      *)
(* handler's events finishes, delivered or failed, after the handler has   *)
(* returned.  One client connection.                                       *)
(***************************************************************************)
Telemetry == "c1"

TelemetryInit ==
    /\ now = 0
    /\ http_cache = [k \in {} |-> NoEntry]
    /\ kafka_producer \in BOOLEAN
    /\ req = [r \in Clients |-> Idle]
    /\ ret = NoReturn
    /\ inserted = [k \in {} |-> Insertion(NoEntry, "", "")]
    /\ keyq = KeyQuery0
    /\ HierarchyOff
    /\ ServicesOff

\* producer.send(record, Duration::ZERO).await in the spawned task: Ok, or
\* Err, which is logged.
producer_send ==
    /\ ret.events # <<>>
    /\ kafka.record # ret.events
    /\ \E outcome \in {"delivered", "failed"} : kafka' = Send(ret.events, outcome)
    /\ UNCHANGED <<engine, hierarchy, picks, codec, server, certificates, modules>>

TelemetryNext ==
    \/ Tick
    \/ handle_request(Telemetry)
    \/ collect_request_body(Telemetry)
    \/ upstream_response(Telemetry)
    \/ upstream_error(Telemetry)
    \/ upstream_body(Telemetry)
    \/ upstream_body_error(Telemetry)
    \/ connect(Telemetry)
    \/ tunnel_upgrade(Telemetry)
    \/ tunnel_connect(Telemetry)
    \/ tunnel_closed(Telemetry)
    \/ tunnel_copy_failed(Telemetry)
    \/ producer_send

TelemetrySpec == TelemetryInit /\ [][TelemetryNext]_vars

(***************************************************************************)
(* send_to_kafka_async on its own: request contexts publish records, each  *)
(* call spawns a task that holds its record until producer.send has        *)
(* finished in it, and the runtime runs the spawned tasks in any order.    *)
(***************************************************************************)
MaxSends == 3

\* The records published: of a hit, of an admitted and of a refused upstream
\* response, and of a closed tunnel.
Records ==
    {CacheEvent("GET", 200, "HIT", 1), CacheEvent("GET", 200, "MISS", 1),
     CacheEvent("POST", 200, "BYPASS", 1), CacheEvent("CONNECT", 200, "BYPASS", 2)}

QueueInit ==
    /\ now = 0
    /\ http_cache = [k \in {} |-> NoEntry]
    /\ kafka_producer \in BOOLEAN
    /\ req = [r \in Clients |-> Idle]
    /\ ret = NoReturn
    /\ inserted = [k \in {} |-> Insertion(NoEntry, "", "")]
    /\ keyq = KeyQuery0
    /\ HierarchyOff
    /\ ServicesOff

\* self.send_to_kafka_async(event): with a producer, tokio::spawn.
publish ==
    /\ Len(sends) < MaxSends
    /\ \E event \in Records : sends' = send_to_kafka_async(sends, event)
    /\ UNCHANGED <<engine, hierarchy, picks, codec, server, certificates, kafka, auth, acl, qpeer, rec, handed>>

\* A spawned task runs: producer.send(record, Duration::ZERO).await returns
\* Ok or Err, the error is logged, and the task ends.
spawned_send ==
    /\ \E i \in 1..Len(sends), outcome \in {"delivered", "failed"} :
         /\ kafka' = Send(<<sends[i]>>, outcome)
         /\ sends' = SubSeq(sends, 1, i - 1) \o SubSeq(sends, i + 1, Len(sends))
    /\ UNCHANGED <<engine, hierarchy, picks, codec, server, certificates, auth, acl, qpeer, rec, handed>>

QueueNext ==
    \/ publish
    \/ spawned_send

QueueSpec == QueueInit /\ [][QueueNext]_vars

(***************************************************************************)
(* The request engine with clients that go away: hyper drops the future of *)
(* handle_request when its connection closes, and a dropped future runs no *)
(* further; it can be dropped only where it is suspended, at one of the    *)
(* three .await points of handle_request.                                  *)
(***************************************************************************)
SuspensionPoints == {"collect_body", "upstream", "collect_response"}

cancel(r) ==
    /\ req[r].pc \in SuspensionPoints
    /\ req' = [req EXCEPT ![r] = Idle]
    /\ ret' = Return(req[r], "cancelled at " \o req[r].pc, "", NoResponse, <<>>, FALSE)
    /\ UNCHANGED <<now, http_cache, kafka_producer, inserted, keyq, hierarchy, services>>

CancelNext ==
    \/ Tick
    \/ \E r \in Clients : handle_request(r)
    \/ \E r \in Clients : collect_request_body(r)
    \/ \E r \in Clients : upstream_response(r)
    \/ \E r \in Clients : upstream_error(r)
    \/ \E r \in Clients : upstream_body(r)
    \/ \E r \in Clients : upstream_body_error(r)
    \/ \E r \in Clients : cancel(r)

CancelSpec == Init /\ [][CancelNext]_vars

(***************************************************************************)
(* The request engine under the scheduling the runtime gives it: the clock *)
(* goes on, the clients send their request bodies, and what the upstream   *)
(* has begun to answer it finishes or breaks off.  Whether the upstream    *)
(* answers a request at all is left open.                                  *)
(***************************************************************************)
UpstreamSilentFairness ==
    /\ WF_vars(Tick)
    /\ \A r \in Clients : WF_vars(collect_request_body(r))
    /\ \A r \in Clients : WF_vars(upstream_body(r) \/ upstream_body_error(r))

TimeoutSpec == Init /\ [][Next]_vars /\ UpstreamSilentFairness

(***************************************************************************)
(* extract_user_info on its own: requests with and without Authorization   *)
(* and Proxy-Authorization headers; what it returns is what handle_request *)
(* writes into the user_id and username of the request's CacheEvent.       *)
(***************************************************************************)
\* Credentials: a:b, a:b:c, :b, a: and ab, and a text that is not UTF-8.
Credentials ==
    {<<97, 58, 98>>, <<97, 58, 98, 58, 99>>, <<58, 98>>, <<97, 58>>, <<97, 98>>,
     <<255, 58, 98>>}

\* Header values: Basic with each of the credentials, basic in lower case,
\* Bearer, base64 without its padding, and a value with a byte that is no
\* visible ASCII.
HeaderValues ==
    {BasicPrefix \o base64_encode(c) : c \in Credentials}
    \cup {<<98, 97, 115, 105, 99, 32>> \o base64_encode(<<97, 58, 98>>),
          <<66, 101, 97, 114, 101, 114, 32, 120>>,
          BasicPrefix \o <<89, 84, 111>>,
          BasicPrefix \o base64_encode(<<97, 58, 98>>) \o <<200>>}

AuthHeaders == {"authorization", "proxy-authorization"}

UserInit ==
    /\ now = 0
    /\ http_cache = [k \in {} |-> NoEntry]
    /\ kafka_producer = TRUE
    /\ req = [r \in Clients |-> Idle]
    /\ ret = NoReturn
    /\ inserted = [k \in {} |-> Insertion(NoEntry, "", "")]
    /\ keyq = KeyQuery0
    /\ HierarchyOff
    /\ picks = NoPicks
    /\ codec = NoCodec
    /\ server = IcpServer({})
    /\ CertificatesOff
    /\ kafka = NoSend
    /\ sends = <<>>
    /\ acl = NoAcl
    /\ qpeer = NoQueryPeer
    /\ rec = NoRecords
    /\ handed = NoHandouts
    /\ \E names \in SUBSET AuthHeaders :
         \E headers \in [names -> HeaderValues] :
             auth = AuthQuery(headers, FALSE, UserInfo(None, None))

user_info ==
    /\ ~auth.returned
    /\ auth' = AuthQuery(auth.headers, TRUE, extract_user_info(auth.headers))
    /\ UNCHANGED <<engine, hierarchy, picks, codec, server, certificates, kafka, sends, acl, qpeer, rec, handed>>

UserNext == user_info

UserSpec == UserInit /\ [][UserNext]_vars

(***************************************************************************)
(* The rule engine on its own: rules are added one by one or loaded as a   *)
(* list, and requests are checked.                                         *)
(***************************************************************************)
MaxRules == 3

\* The rules given to the engine: an allow and a deny on the same domain at
\* different priorities, a redirect that matches every request at the
\* priority of the deny, a disabled deny above them all, and a deny on a
\* category.
RulePool ==
    {AclRule("low", TRUE, 10, "allow", Domain("example.com")),
     AclRule("high", TRUE, 100, "deny", Domain("example.com")),
     AclRule("tie", TRUE, 100, "redirect", TimeWindow),
     AclRule("off", FALSE, 200, "deny", Domain("example.com")),
     AclRule("cat", TRUE, 50, "deny", Category("adult"))}

AclRequests ==
    {AclRequest("example.com", None), AclRequest("other.org", Some("adult")),
     AclRequest("other.org", None)}

AclActions == {"allow", "deny", "redirect"}

\* The rule lists handed to load_rules.
RuleLists ==
    {<<>>} \cup {<<a>> : a \in RulePool} \cup {<<a, b>> : a \in RulePool, b \in RulePool}

AclInit ==
    /\ now = 0
    /\ http_cache = [k \in {} |-> NoEntry]
    /\ kafka_producer = TRUE
    /\ req = [r \in Clients |-> Idle]
    /\ ret = NoReturn
    /\ inserted = [k \in {} |-> Insertion(NoEntry, "", "")]
    /\ keyq = KeyQuery0
    /\ HierarchyOff
    /\ picks = NoPicks
    /\ codec = NoCodec
    /\ server = IcpServer({})
    /\ CertificatesOff
    /\ kafka = NoSend
    /\ sends = <<>>
    /\ auth = NoAuth
    /\ qpeer = NoQueryPeer
    /\ rec = NoRecords
    /\ handed = NoHandouts
    /\ \E default_action \in AclActions :
           acl = Acl(AclEngine(<<>>, default_action), <<>>, NoAclRequest, allow)

acl_add_rule ==
    /\ Len(acl.given) < MaxRules
    /\ \E rule \in RulePool :
           acl' = Acl(add_rule(acl.engine, rule), Append(acl.given, rule),
                      NoAclRequest, allow)
    /\ UNCHANGED <<engine, hierarchy, picks, codec, server, certificates, kafka, sends, auth, qpeer, rec, handed>>

acl_load_rules ==
    /\ \E rules \in RuleLists :
           acl' = Acl(load_rules(acl.engine, rules), rules, NoAclRequest, allow)
    /\ UNCHANGED <<engine, hierarchy, picks, codec, server, certificates, kafka, sends, auth, qpeer, rec, handed>>

acl_check_access ==
    /\ \E request \in AclRequests :
           acl' = [acl EXCEPT !.request = request,
                              !.decision = check_access(acl.engine, request)]
    /\ UNCHANGED <<engine, hierarchy, picks, codec, server, certificates, kafka, sends, auth, qpeer, rec, handed>>

AclNext ==
    \/ acl_add_rule
    \/ acl_load_rules
    \/ acl_check_access

AclSpec == AclInit /\ [][AclNext]_vars

(***************************************************************************)
(* One query_peer call and the datagrams that reach its socket while it    *)
(* waits: replies of the peer queried, datagrams of another host, short    *)
(* ones and garbled ones.                                                  *)
(***************************************************************************)
PeerAddr == "10.0.0.1:3130"

Garbled == [i \in 1..20 |-> 7]

\* Replies to the query (request number 1) and to another one, a datagram
\* of three bytes, a reply cut short of its last byte, twenty bytes that
\* are no ICP message, and twenty such bytes that happen to carry the
\* request number of the query.
ReplyData ==
    {encode(hit(1)), encode(miss(1)), encode(hit(2)), <<2, 2, 0>>,
     SubSeq(encode(hit(1)), 1, 19), Garbled,
     <<7, 7, 7, 7>> \o put_u32(1) \o SubSeq(Garbled, 1, 12)}

Valid(packet, call_) ==
    /\ packet.addr = call_.peer
    /\ packet.data \in {encode(hit(call_.request_number)),
                        encode(miss(call_.request_number))}

ReplyInit ==
    /\ now = 0
    /\ http_cache = [k \in {} |-> NoEntry]
    /\ kafka_producer = TRUE
    /\ req = [r \in Clients |-> Idle]
    /\ ret = NoReturn
    /\ inserted = [k \in {} |-> Insertion(NoEntry, "", "")]
    /\ keyq = KeyQuery0
    /\ HierarchyOff
    /\ ServicesOff

\* query_peer up to its first recv_from: the query is sent.
query_peer ==
    /\ qpeer.state = "idle"
    /\ qpeer' = QueryPeer("recv", PeerAddr, IcpClient(TRUE).request_counter,
                          <<>>, "", "", 0)
    /\ UNCHANGED <<engine, hierarchy, picks, codec, server, certificates, kafka,
                   sends, auth, acl, rec, handed>>

\* A datagram reaches the socket.
datagram ==
    /\ qpeer.state # "idle"
    /\ qpeer.arrived < MaxDatagrams
    /\ \E addr \in {PeerAddr, StrangerAddr}, data \in ReplyData :
         LET packet == Packet(addr, data, decode(data))
         IN  qpeer' = [qpeer EXCEPT
                 !.socket = Append(@, packet),
                 !.arrived = @ + 1,
                 !.answer = IF @ = "" /\ qpeer.state = "recv" /\ Valid(packet, qpeer)
                            THEN packet.msg.opcode ELSE @]
    /\ UNCHANGED <<engine, hierarchy, picks, codec, server, certificates, kafka,
                   sends, auth, acl, rec, handed>>

\* One turn of the receive loop of query_peer.
query_peer_recv ==
    /\ qpeer.state = "recv"
    /\ qpeer.socket # <<>>
    /\ LET d == Head(qpeer.socket)
           response == decode(Take(d.data, RECV_BUF))
           waiting == [qpeer EXCEPT !.socket = Tail(@)]
       IN  qpeer' =
               IF d.addr # qpeer.peer THEN waiting
               ELSE IF response = InvalidData
               THEN [waiting EXCEPT !.state = "err", !.response = "InvalidData"]
               ELSE IF response.request_number = qpeer.request_number
               THEN [waiting EXCEPT !.state = "ok", !.response = response.opcode]
               ELSE waiting
    /\ UNCHANGED <<engine, hierarchy, picks, codec, server, certificates, kafka,
                   sends, auth, acl, rec, handed>>

\* query_timeout elapses with nothing left to receive: TimedOut.
query_peer_timeout ==
    /\ qpeer.state = "recv"
    /\ qpeer.socket = <<>>
    /\ qpeer' = [qpeer EXCEPT !.state = "timeout", !.response = "TimedOut"]
    /\ UNCHANGED <<engine, hierarchy, picks, codec, server, certificates, kafka,
                   sends, auth, acl, rec, handed>>

ReplyNext ==
    \/ query_peer
    \/ datagram
    \/ query_peer_recv
    \/ query_peer_timeout

ReplySpec == ReplyInit /\ [][ReplyNext]_vars

(***************************************************************************)
(* Tasks that record their interactions with one peer at the same time.    *)
(* A step is one atomic operation on the peer's counters: the fetch_add of *)
(* record_request, the fetch_add of record_hit, record_miss or             *)
(* record_error, and the two loads of error_rate in record_peer_error.     *)
(***************************************************************************)
MaxRecords == 3

StatsPeer == PeerId(PeerConfigs[1])

StatsInit ==
    /\ now = 0
    /\ http_cache = [k \in {} |-> NoEntry]
    /\ kafka_producer = TRUE
    /\ req = [r \in Clients |-> Idle]
    /\ ret = NoReturn
    /\ inserted = [k \in {} |-> Insertion(NoEntry, "", "")]
    /\ keyq = KeyQuery0
    /\ peers = add_peer(NoRegistry, PeerConfigs[1])
    /\ hier = HierarchyManager(FALSE, FALSE, "weighted")
    /\ call = NoCall
    /\ net = [queries |-> {}, socket |-> <<>>]
    /\ hret = NoHierReturn
    /\ ServicesOff

\* peer.stats.record_request().await
stats_record_request(t) ==
    /\ rec.tasks[t].pc = "idle"
    /\ peers[StatsPeer].stats.requests < MaxRecords
    /\ \E op \in {"hit", "miss", "error"} :
           rec' = [rec EXCEPT !.tasks[t] = Recording("record", op, 0)]
    /\ peers' = [peers EXCEPT ![StatsPeer].stats = record_request(@)]
    /\ UNCHANGED <<engine, hier, call, net, hret, picks, codec, server,
                   certificates, kafka, sends, auth, acl, qpeer, handed>>

\* peer.stats.record_hit(bytes).await, record_miss().await, record_error().await
stats_record(t) ==
    /\ rec.tasks[t].pc = "record"
    /\ LET op == rec.tasks[t].op
       IN  /\ peers' = [peers EXCEPT ![StatsPeer].stats =
                           CASE op = "hit" -> record_hit(@, 1024)
                             [] op = "miss" -> record_miss(@)
                             [] OTHER -> record_error(@)]
           /\ rec' = [rec EXCEPT !.tasks[t] =
                         IF op = "error" THEN Recording("load_errors", op, 0)
                                         ELSE NotRecording]
    /\ UNCHANGED <<engine, hier, call, net, hret, picks, codec, server,
                   certificates, kafka, sends, auth, acl, qpeer, handed>>

\* error_rate: self.errors.load(..)
stats_load_errors(t) ==
    /\ rec.tasks[t].pc = "load_errors"
    /\ rec' = [rec EXCEPT !.tasks[t] =
                  Recording("load_requests", "error", peers[StatsPeer].stats.errors)]
    /\ UNCHANGED <<engine, peers, hier, call, net, hret, picks, codec, server,
                   certificates, kafka, sends, auth, acl, qpeer, handed>>

\* error_rate: self.requests.load(..), the division, and the health flag.
stats_load_requests(t) ==
    /\ rec.tasks[t].pc = "load_requests"
    /\ LET total == peers[StatsPeer].stats.requests
           rate == IF total = 0 THEN Ratio(0, 1) ELSE Ratio(rec.tasks[t].errors, total)
       IN  /\ rec' = [rec EXCEPT !.tasks[t] = NotRecording, !.rate = rate]
           /\ peers' = IF Greater(rate, Ratio(1, 2))
                       THEN [peers EXCEPT ![StatsPeer] = set_healthy(@, FALSE)]
                       ELSE peers
    /\ UNCHANGED <<engine, hier, call, net, hret, picks, codec, server,
                   certificates, kafka, sends, auth, acl, qpeer, handed>>

StatsNext ==
    \/ \E t \in RecTasks : stats_record_request(t)
    \/ \E t \in RecTasks : stats_record(t)
    \/ \E t \in RecTasks : stats_load_errors(t)
    \/ \E t \in RecTasks : stats_load_requests(t)

StatsSpec == StatsInit /\ [][StatsNext]_vars

(***************************************************************************)
(* The callers of the hierarchy: each takes the peer resolve_source        *)
(* returned to it, fetches from it and records the outcome, while other    *)
(* callers resolve and health_check runs.  One sibling, one parent, the    *)
(* weighted policy, with and without an ICP client.                        *)
(***************************************************************************)
HandInit ==
    /\ now = 0
    /\ http_cache = [k \in {} |-> NoEntry]
    /\ kafka_producer = TRUE
    /\ req = [r \in Clients |-> Idle]
    /\ ret = NoReturn
    /\ inserted = [k \in {} |-> Insertion(NoEntry, "", "")]
    /\ keyq = KeyQuery0
    /\ peers = add_peer(add_peer(NoRegistry, PeerConfigs[1]), PeerConfigs[3])
    /\ \E some \in BOOLEAN : hier = HierarchyManager(TRUE, some, "weighted")
    /\ call = NoCall
    /\ net = [queries |-> {}, socket |-> <<>>]
    /\ hret = NoHierReturn
    /\ ServicesOff

Handout(peer, seq) == [peer |-> peer, seq |-> seq]

\* The caller takes the peer resolve_source has just returned to it.
peer_taken ==
    /\ hret.op = "resolve_source"
    /\ hret.source.kind \in {"SiblingHit", "ParentHit"}
    /\ handed' = [handed EXCEPT !.out = @ \cup {Handout(hret.source.peer, hret.call.seq)}]
    /\ hret' = NoHierReturn
    /\ UNCHANGED <<engine, peers, hier, call, net, picks, codec, server,
                   certificates, kafka, sends, auth, acl, qpeer, rec>>

\* The caller records how its fetch from the peer went.
peer_recorded ==
    /\ \E h \in handed.out, op \in {"record_peer_hit", "record_peer_miss", "record_peer_error"} :
         /\ peers' = [peers EXCEPT ![h.peer] =
                         CASE op = "record_peer_hit" -> record_peer_hit(@, 1024)
                           [] op = "record_peer_miss" -> record_peer_miss(@)
                           [] OTHER -> record_peer_error(@)]
         /\ handed' = [out |-> handed.out \ {h},
                       late |-> handed.late \/ call.seq > h.seq]
         /\ hret' = HierReturn(op, h.peer, NoResult, NoCall, <<>>, NoFlags, peers)
    /\ UNCHANGED <<engine, hier, call, net, picks, codec, server,
                   certificates, kafka, sends, auth, acl, qpeer, rec>>

HandNext ==
    \/ resolve_source
    \/ sibling_reply
    \/ recv_from
    \/ icp_timeout
    \/ query_siblings
    \/ select_parent
    \/ peer_taken
    \/ peer_recorded
    \/ registry_health_check

HandSpec == HandInit /\ [][HandNext]_vars

(***************************************************************************)
(* Properties                                                              *)
(***************************************************************************)
\* The age of an entry as the specification defines it: now - insertion time.
Age(entry) == now - entry.cached_at

WithinTtl(entry) == Age(entry) >= 0 /\ Age(entry) <= default_ttl

\* A lookup by r that did not answer from the cache and went on upstream.
LookupMiss(r) == req[r].pc = "idle" /\ req'[r].pc = "collect_body"

\* One step of the engine: a lookup misses only when the cache holds no entry
\* of age <= TTL for the key, and a hit serves such an entry.
LookupServesFresh ==
    /\ \A r \in Clients :
           LookupMiss(r) =>
               LET k == req'[r].cache_key
               IN  ~(k \in DOMAIN http_cache /\ WithinTtl(http_cache[k]))
    /\ ret'.ret = "hit" =>
           LET k == ret'.cache_key
           IN  /\ k \in DOMAIN http_cache
               /\ WithinTtl(http_cache[k])
               /\ ret'.cache_status = "HIT"
               /\ ret'.response.status = http_cache[k].status
               /\ ret'.response.body = http_cache[k].body

\* C1 (as amended): a lookup of key k is answered from the cache, with outcome
\* HIT and the status and body of the entry, exactly when the cache still holds
\* an entry for k whose age is at most the TTL; otherwise it goes upstream.
C1_LookupWithinTtl ==
    [][LookupServesFresh]_vars

\* C1 witness: a request has just been answered from an entry whose age equals
\* the TTL.
C1_Witness ==
    /\ ret.ret = "hit"
    /\ ret.cache_key \in DOMAIN http_cache
    /\ Age(http_cache[ret.cache_key]) = default_ttl
    /\ ret.response.body = http_cache[ret.cache_key].body

\* C1 (original): once v is inserted for k and nothing is inserted for k
\* afterwards, every lookup of k at age(v) <= TTL is served v.
C1_Original ==
    [][\A r \in Clients :
           LookupMiss(r) =>
               LET k == req'[r].cache_key
               IN  ~(k \in DOMAIN inserted /\ WithinTtl(inserted[k].entry))]_vars

\* A fetch is outstanding from the call of http_client.request until the
\* response body has been collected.
Fetching(r) == req[r].pc \in {"upstream", "collect_response"}

\* C2: requests with the same fingerprint that miss concurrently share one
\* upstream fetch: no two fetches for one key are outstanding together.
C2_SingleFlight ==
    \A r1, r2 \in Clients :
        (r1 # r2 /\ Fetching(r1) /\ Fetching(r2)) =>
            req[r1].cache_key # req[r2].cache_key

\* C3: an upstream response is inserted iff the method is GET or HEAD, the
\* status is in the cacheable set and the body is at most max_body_size long;
\* the outcome is MISS exactly when it was inserted and BYPASS exactly when it
\* was fetched upstream and not inserted.
C3_Admission ==
    ret.ret \in {"hit", "upstream_ok", "upstream_error", "body_error"} =>
        LET fetched == ret.ret = "upstream_ok"
            admissible ==
                /\ ret.method \in {"GET", "HEAD"}
                /\ ret.response.status \in
                       {200, 203, 204, 206, 300, 301, 404, 405, 410, 414, 501}
                /\ Len(ret.response.body) <= max_body_size
        IN  /\ ret.inserted <=> (fetched /\ admissible)
            /\ ret.inserted =>
                   /\ ret.cache_key \in DOMAIN http_cache
                   /\ http_cache[ret.cache_key].body = ret.response.body
                   /\ http_cache[ret.cache_key].status = ret.response.status
                   /\ http_cache[ret.cache_key].cached_at = now
            /\ (ret.cache_status = "MISS") <=> ret.inserted
            /\ (ret.cache_status = "BYPASS") <=> (fetched /\ ~ret.inserted)

\* C3 witness: a GET whose 200 response is exactly max_body_size long has been
\* admitted, outcome MISS.
C3_Witness ==
    /\ ret.ret = "upstream_ok"
    /\ ret.method = "GET"
    /\ ret.response.status = 200
    /\ Len(ret.response.body) = max_body_size
    /\ ret.cache_status = "MISS"
    /\ ret.inserted

\* C5: every response written by the HTTP path carries x-cache-status with the
\* request's cache outcome (HIT, MISS or BYPASS).
C5_CacheStatusHeader ==
    ret.ret \in {"hit", "upstream_ok"} =>
        /\ "x-cache-status" \in DOMAIN ret.response.headers
        /\ ret.response.headers["x-cache-status"] = ret.cache_status

\* C6: when the upstream fetch fails the client receives 502 with an empty
\* body, nothing is inserted, and one observation with status 502 and
\* cache_status BYPASS is emitted.
C6_UpstreamFailure ==
    ret.ret = "upstream_error" =>
        /\ ret.response.status = 502
        /\ ret.response.body = ""
        /\ ~ret.inserted
        /\ kafka_producer =>
               /\ Len(ret.events) = 1
               /\ ret.events[1].status = 502
               /\ ret.events[1].cache_status = "BYPASS"

\* C7: with the emitter enabled, every completed request (cache hit, upstream
\* success, upstream failure, CONNECT tunnel) hands exactly one observation
\* record to the emitter.
C7_ExactlyOneEvent ==
    (kafka_producer /\ ret.ret \in {"hit", "upstream_ok", "upstream_error", "tunnel_closed"})
        => Len(ret.events) = 1

\* URL normalization as the specification states it: scheme and host in lower
\* case, an explicit default port dropped, path verbatim.
DefaultPort(scheme) == IF LowerAscii(scheme) = "http" THEN ":80" ELSE ":443"

NormalizedTarget(t) ==
    Target(LowerAscii(t.scheme), LowerAscii(t.host),
           IF t.port = DefaultPort(t.scheme) THEN "" ELSE t.port, t.path)

\* C8: requests with the same method whose URLs differ only in the case of the
\* scheme or host, or in an explicit default port, get the same cache key, and
\* requests whose normalized URLs differ get different keys.
C8_NormalizedKey ==
    keyq.m1 = keyq.m2 =>
        ((NormalizedTarget(keyq.t1) = NormalizedTarget(keyq.t2))
            <=> (keyq.key1 = keyq.key2))

\* C9: a response to a non-cacheable method is BYPASS and is not inserted, and
\* a request answered from the cache is answered from the entry that a request
\* with the same method and the same URL inserted last.
C9_MethodsDoNotShare ==
    /\ (ret.ret = "upstream_ok" /\ ret.method \notin {"GET", "HEAD"}) =>
           (ret.cache_status = "BYPASS" /\ ~ret.inserted)
    /\ ret.ret = "hit" =>
           /\ ret.cache_key \in DOMAIN inserted
           /\ inserted[ret.cache_key].method = ret.method
           /\ inserted[ret.cache_key].url = ret.url
           /\ ret.response.body = inserted[ret.cache_key].entry.body
           /\ ret.response.status = inserted[ret.cache_key].entry.status

\* C9 witness: a GET is answered from the cache after a HEAD response for the
\* same URL had been inserted too.
C9_Witness ==
    /\ ret.ret = "hit"
    /\ ret.method = "GET"
    /\ generate_cache_key("HEAD", ret.url) \in DOMAIN inserted
    /\ inserted[generate_cache_key("HEAD", ret.url)].entry.body # ret.response.body

\* What a lookup of key k finds in cache c: an entry it may serve, or nothing.
Servable(c, k) == k \in DOMAIN c /\ WithinTtl(c[k])

\* The step returns an upstream response that must not be admitted.
Refused ==
    /\ ret'.ret = "upstream_ok"
    /\ \/ Len(ret'.response.body) > max_body_size
       \/ ret'.response.status \notin
              {200, 203, 204, 206, 300, 301, 404, 405, 410, 414, 501}

RefusedFrame ==
    /\ http_cache' = http_cache
    /\ inserted' = inserted
    /\ ret'.cache_status = "BYPASS"
    /\ Servable(http_cache', ret'.cache_key) <=> Servable(http_cache, ret'.cache_key)

\* C10: a request whose upstream response is refused admission (oversize body
\* or uncacheable status) leaves the cache as it was, so a key that a lookup
\* missed before the step is missed after it.
C10_RefusedLeavesCache ==
    [][Refused => RefusedFrame]_vars

\* C10 witness: a GET whose 200 response was one byte too long has returned
\* BYPASS, and a lookup of its key still misses.
C10_Witness ==
    /\ ret.ret = "upstream_ok"
    /\ ret.method = "GET"
    /\ ret.response.status = 200
    /\ Len(ret.response.body) = max_body_size + 1
    /\ ret.cache_status = "BYPASS"
    /\ ~Servable(http_cache, ret.cache_key)

\* Header names that belong to one hop, and the proxy's own status header.
HopByHop(name) ==
    \/ name \in {"connection", "keep-alive", "transfer-encoding", "upgrade"}
    \/ name \in {"proxy-authenticate", "proxy-authorization", "proxy-connection"}

\* C11: no entry held by the response cache carries a hop-by-hop header or an
\* x-cache-status header, whatever headers the upstream response carried.
C11_StoredHeaders ==
    \A k \in DOMAIN http_cache :
        \A name \in DOMAIN http_cache[k].headers :
            ~HopByHop(name) /\ name # "x-cache-status"

\* The sibling (by socket address) that sent a HIT for the query of the call
\* that has just returned, before that call's deadline.
AnsweredHit(c) == c.hits_sent

Resolved == hret.op = "resolve_source"

\* C12: resolve_source decides in a fixed order: OriginRequired when the
\* hierarchy is disabled; else SiblingHit when a queried sibling answered
\* HIT; else ParentHit of a healthy parent when one exists; else
\* OriginRequired.
C12_DecisionOrder ==
    Resolved =>
        IF ~hier.config.enabled
        THEN hret.source = OriginRequired
        ELSE IF AnsweredHit(hret.call) # {}
        THEN hret.source.kind = "SiblingHit"
        ELSE IF \E id \in DOMAIN peers :
                    /\ peers[id].config.peer_type = "parent"
                    /\ id \in DOMAIN hret.read
                    /\ hret.read[id]
        THEN /\ hret.source.kind = "ParentHit"
             /\ peers[hret.source.peer].config.peer_type = "parent"
        ELSE hret.source = OriginRequired

\* C13: resolve_source returns SiblingHit(p) only if p answered HIT to the
\* query this call sent, before this call's deadline.
C13_OnlyOwnHit ==
    (Resolved /\ hret.source.kind = "SiblingHit") =>
        sibling_addr(peers[hret.source.peer]) \in AnsweredHit(hret.call)

\* C14: when a sibling sent its HIT for the call's query before the deadline,
\* the call returns SiblingHit of a sibling that did, whatever the other
\* siblings sent and in whatever order the replies arrived.
C14_HitIsReturned ==
    (Resolved /\ AnsweredHit(hret.call) # {}) =>
        /\ hret.source.kind = "SiblingHit"
        /\ sibling_addr(peers[hret.source.peer]) \in AnsweredHit(hret.call)

\* C15: no two queries that are outstanding at the same time carry the same
\* request number.
C15_DistinctRequestNumbers ==
    \A i, j \in DOMAIN call.tasks :
        (i # j /\ call.tasks[i].state = "recv" /\ call.tasks[j].state = "recv") =>
            call.tasks[i].request_number # call.tasks[j].request_number

\* C16: a fan-out returns as soon as the first HIT has arrived: a call that
\* returns a sibling's HIT has not sat through the timeout of another query.
C16_ReturnsOnFirstHit ==
    (Resolved /\ hret.source.kind = "SiblingHit") =>
        \A i \in DOMAIN hret.call.tasks : hret.call.tasks[i].state # "timeout"

\* C17: the peer resolve_source returns, as SiblingHit or ParentHit, had its
\* health flag set when the call read the registry for the list it was taken
\* from, under each of the four selection policies.
C17_HealthyWhenRead ==
    (Resolved /\ hret.source.kind \in {"SiblingHit", "ParentHit"}) =>
        /\ hret.source.peer \in DOMAIN hret.read
        /\ hret.read[hret.source.peer]

\* C17 witness: a parent has been returned by a call that read another parent
\* as unhealthy.
C17_Witness ==
    /\ Resolved
    /\ hret.source.kind = "ParentHit"
    /\ \E id \in DOMAIN hret.read : id # hret.source.peer /\ ~hret.read[id]

\* The share of errors among the requests recorded for a peer, as the claims
\* state it.
ErrorsOver(stats, n, d) == d * stats.errors > n * stats.requests
ErrorsUnder(stats, n, d) == d * stats.errors < n * stats.requests \/ stats.requests = 0

\* C18 (original): after a recorded peer error, a peer with at least half of
\* its recorded requests in error is unhealthy.
C18_Original ==
    hret.op = "record_peer_error" =>
        LET peer == peers[hret.peer]
        IN  2 * peer.stats.errors >= peer.stats.requests => ~peer.healthy

\* C18 (as amended): after a recorded peer error, a peer with more than half
\* of its recorded requests in error is unhealthy, and a peer with at most
\* half keeps the flag it had.
C18_ErrorMajority ==
    hret.op = "record_peer_error" =>
        LET peer == peers[hret.peer]
        IN  /\ ErrorsOver(peer.stats, 1, 2) => ~peer.healthy
            /\ ~ErrorsOver(peer.stats, 1, 2) =>
                   peer.healthy = hret.before[hret.peer].healthy

\* C18 witness: the error that has just been recorded took a healthy peer
\* over one half (two errors in three requests) and it is now unhealthy.
C18_Witness ==
    /\ hret.op = "record_peer_error"
    /\ hret.before[hret.peer].healthy
    /\ peers[hret.peer].stats.requests = 3
    /\ peers[hret.peer].stats.errors = 2
    /\ ~peers[hret.peer].healthy

\* C19: after health_check, every peer whose error rate is over 0.5 is
\* unhealthy, every peer that was unhealthy with a rate under 0.1 is healthy,
\* and every peer with a rate in [0.1, 0.5] has the flag it had before.
C19_Hysteresis ==
    hret.op = "health_check" =>
        \A id \in DOMAIN peers :
            LET stats == peers[id].stats
                was == hret.before[id].healthy
            IN  /\ ErrorsOver(stats, 1, 2) => ~peers[id].healthy
                /\ (ErrorsUnder(stats, 1, 10) /\ ~was) => peers[id].healthy
                /\ (~ErrorsOver(stats, 1, 2) /\ ~ErrorsUnder(stats, 1, 10)) =>
                       peers[id].healthy = was

\* C19 witness: health_check has just made healthy a peer that had errors and
\* left unhealthy another whose rate is between the two thresholds.
C19_Witness ==
    /\ hret.op = "health_check"
    /\ \E id \in DOMAIN peers :
           /\ ~hret.before[id].healthy
           /\ peers[id].healthy
           /\ peers[id].stats.errors > 0
    /\ \E id \in DOMAIN peers :
           /\ ~ErrorsOver(peers[id].stats, 1, 2)
           /\ ~ErrorsUnder(peers[id].stats, 1, 10)
           /\ ~peers[id].healthy

\* One step of the registry: the counters read through it for an identity it
\* holds before and after do not go down.
CountersGrow ==
    \A id \in DOMAIN peers \cap DOMAIN peers' :
        /\ peers'[id].stats.requests >= peers[id].stats.requests
        /\ peers'[id].stats.hits >= peers[id].stats.hits
        /\ peers'[id].stats.misses >= peers[id].stats.misses
        /\ peers'[id].stats.errors >= peers[id].stats.errors
        /\ peers'[id].stats.bytes_received >= peers[id].stats.bytes_received

\* C20: for every peer identity held by the registry, no counter read through
\* the registry ever decreases, whatever is added, removed or recorded.
C20_CountersMonotone ==
    [][CountersGrow]_vars

(***************************************************************************)
(* selection.rs                                                            *)
(***************************************************************************)
RoundRobin == hier.selection_strategy.name = "round-robin"

\* C21: under round-robin selection over a fixed non-empty list, after any
\* number of select calls the numbers of times any two peers were returned
\* differ by at most 1, and the calls return the peers in input order,
\* wrapping around: the n-th call returns the peer at position
\* ((n - 1) mod P) + 1.
C21_RoundRobinFair ==
    RoundRobin =>
        /\ \A i, j \in DOMAIN picks.count : picks.count[i] - picks.count[j] <= 1
        /\ picks.calls > 0 =>
               picks.last = ((picks.calls - 1) % Len(picks.count)) + 1

Selected(name) == hier.selection_strategy.name = name /\ hret.op = "select"

\* The positions of the list select was called with that held a healthy peer.
HealthyAt == {i \in DOMAIN hret.parents : hret.before[hret.parents[i]].healthy}

RttAt(i) == hret.before[hret.parents[i]].rtt_ms

\* C23: closest selection returns a healthy peer of the list whose RTT is
\* minimal among the list's healthy peers, the first such peer in input
\* order when several share the minimum, and nothing when the list holds no
\* healthy peer.
C23_Closest ==
    Selected("closest") =>
        IF HealthyAt = {}
        THEN hret.peer = NoPeer
        ELSE \E i \in HealthyAt :
               /\ hret.peer = hret.parents[i]
               /\ \A j \in HealthyAt : RttAt(i) <= RttAt(j)
               /\ \A j \in HealthyAt : j < i => RttAt(j) > RttAt(i)

\* Two healthy peers share the minimum behind an unhealthy peer that is
\* closer than both: the first of the two is returned.
C23_Witness ==
    /\ Selected("closest")
    /\ Len(hret.parents) = 3
    /\ HealthyAt = {2, 3}
    /\ RttAt(1) < RttAt(2)
    /\ RttAt(2) = RttAt(3)
    /\ hret.peer = hret.parents[2]

\* weight x (1 - errors / requests) x 100 / (100 + rtt_ms), as the ratio of
\* two integers; 0 for an unhealthy peer.
ClaimedScore(peer) ==
    IF ~peer.healthy THEN Ratio(0, 1)
    ELSE IF peer.stats.requests = 0
    THEN Ratio(peer.config.weight * 100, 100 + peer.rtt_ms)
    ELSE Ratio(peer.config.weight * (peer.stats.requests - peer.stats.errors) * 100,
               peer.stats.requests * (100 + peer.rtt_ms))

\* The cumulative score of the first i peers of the list select was called
\* with, in the units of the drawn value.
Cumulative(i) == Sum(SubSeq(Scores(hret.parents, hret.before), 1, i))

\* C24: weighted selection returns nothing when the list is empty or the
\* peers' scores sum to 0; otherwise, for the value r it drew in [0, sum),
\* it returns the first peer in input order whose cumulative score is >= r.
\* A peer's score is weight x (1 - error_rate) x 1 / (1 + rtt_ms / 100), and
\* 0 when it is unhealthy.
C24_Weighted ==
    Selected("weighted") =>
        /\ \A i \in DOMAIN hret.parents :
               LET peer == hret.before[hret.parents[i]]
               IN  score(peer)[1] * ClaimedScore(peer)[2]
                       = ClaimedScore(peer)[1] * score(peer)[2]
        /\ IF hret.parents = <<>> \/ Cumulative(Len(hret.parents)) = 0
           THEN hret.peer = NoPeer
           ELSE /\ picks.rng >= 0
                /\ picks.rng < Cumulative(Len(hret.parents))
                /\ \E i \in DOMAIN hret.parents :
                     /\ hret.peer = hret.parents[i]
                     /\ Cumulative(i) >= picks.rng
                     /\ \A j \in 1..(i - 1) : Cumulative(j) < picks.rng

\* Three healthy peers with three different scores (an error rate of one
\* half on the first, a round-trip time of 100 ms on the second), and a
\* drawn value past the first two: the third is returned.
C24_Witness ==
    /\ Selected("weighted")
    /\ Len(hret.parents) = 3
    /\ hret.before[hret.parents[1]].stats.errors = 1
    /\ hret.before[hret.parents[2]].rtt_ms = 100
    /\ Cumulative(1) > 0
    /\ Cumulative(2) > Cumulative(1)
    /\ picks.rng > Cumulative(2)
    /\ hret.peer = hret.parents[3]

(***************************************************************************)
(* icp.rs                                                                  *)
(***************************************************************************)
\* A QUERY with a URL (no NUL character in it, a length that fits the 16-bit
\* length field), or a HIT or MISS response with an empty URL.
WellFormed(msg) ==
    \/ /\ msg.opcode = "QUERY"
       /\ \A i \in DOMAIN msg.url : msg.url[i] # 0
       /\ Len(msg.url) < 65536
    \/ /\ msg.opcode \in {"HIT", "MISS"}
       /\ msg.url = <<>>

\* C25: the sibling wire codec round-trips.  For every well-formed message
\* m, decode(encode(m)) has the opcode, version, request number and URL of m.
C25_RoundTrip ==
    (codec.decoded # NoMessage /\ WellFormed(codec.msg)) =>
        /\ codec.decoded.opcode = codec.msg.opcode
        /\ codec.decoded.version = codec.msg.version
        /\ codec.decoded.request_number = codec.msg.request_number
        /\ codec.decoded.url = codec.msg.url

\* A QUERY with a two-character URL and a request number that fills more
\* than one byte went through encode and decode.
C25_Witness ==
    /\ codec.decoded # NoMessage
    /\ codec.msg.opcode = "QUERY"
    /\ Len(codec.msg.url) = 2
    /\ WellFormed(codec.msg)
    /\ codec.msg.request_number = 513
    /\ Len(codec.encoded) = 23

\* The datagrams this program put on the wire: the queries of query_peer
\* waiting in the server's socket or just handled, and the server's replies.
OnTheWire ==
    {server.socket[i] : i \in {j \in DOMAIN server.socket :
                                   server.socket[j].addr = ClientAddr}}
        \cup {server.last.replies[i] : i \in DOMAIN server.last.replies}
        \cup (IF server.last.handled.addr = ClientAddr
              THEN {server.last.handled} ELSE {})

\* C26: every message the sibling protocol puts on the wire is at most 1024
\* bytes long, and no query with a URL of more than 1000 bytes is on the
\* wire: such a query is dropped, not sent.
C26_WireLimit ==
    \A packet \in OnTheWire :
        /\ Len(packet.data) <= 1024
        /\ Len(packet.msg.url) <= 1000

\* C27: for every QUERY datagram it receives the server sends exactly one
\* reply, to the sender, with opcode HIT if the presence predicate holds for
\* the queried URL and MISS otherwise, and with the query's request number;
\* a datagram that is no QUERY gets no reply.
C27_ServerReplies ==
    LET packet == server.last.handled
        replies == server.last.replies
    IN  packet # NoPacket =>
            IF packet.msg.opcode = "QUERY"
            THEN /\ Len(replies) = 1
                 /\ replies[1].addr = packet.addr
                 /\ decode(replies[1].data).opcode =
                        (IF packet.msg.url \in server.present THEN "HIT" ELSE "MISS")
                 /\ decode(replies[1].data).request_number =
                        packet.msg.request_number
            ELSE replies = <<>>

(***************************************************************************)
(* main.rs, CertCache                                                      *)
(***************************************************************************)
\* C28: certificate entries are immutable once minted.  A get_or_generate(h)
\* call made after some call returned the pair p for h returns p, under
\* every interleaving of the calls for h.
C28_MintedOnce ==
    (cret.pair # NoCertPair /\ cret.later) => cret.pair = cret.first[cret.domain]

\* C29: every leaf certificate get_or_generate returns for a hostname is
\* signed with the process-wide CA key and issued by the CA, not by the
\* leaf's own key, and names the hostname as CN and as subjectAltName.
C29_SignedByCa ==
    cret.pair # NoCertPair =>
        /\ cret.pair.cert.signed_by = cert_cache.ca_key
        /\ cret.pair.cert.issuer = cert_cache.ca_cert.cn
        /\ cret.pair.cert.cn = cret.domain
        /\ cret.pair.cert.san = <<cret.domain>>

(***************************************************************************)
(* main.rs, send_to_kafka_async                                            *)
(***************************************************************************)
\* What a step does to the request path, written without the emitter: the
\* answer from the cache is the cached entry and leaves the cache alone; the
\* answer from upstream is the upstream response, admitted to the cache or
\* not by is_cacheable alone; a step in which a handler returns is not a
\* step in which a send finishes, and a step in which a send finishes
\* changes nothing of the request path.
TelemetryFrame ==
    /\ kafka' # kafka => UNCHANGED <<now, http_cache, req, ret, inserted>>
    /\ (ret' # ret /\ ret' # NoReturn) => kafka' = kafka
    /\ ret'.ret = "hit" =>
           /\ http_cache' = http_cache
           /\ ret'.response = to_response(http_cache[ret'.cache_key])
    /\ ret'.ret = "upstream_ok" =>
           LET status == ret'.upstream.status
               body == ret'.response.body
               admit == is_cacheable(ret'.method, status, Len(body))
               entry == CachedResponse(status, ret'.upstream.headers, body, now,
                                       default_ttl)
           IN  /\ ret'.response = Response(status, ret'.upstream.headers, body)
               /\ ret'.cache_status = (IF admit THEN "MISS" ELSE "BYPASS")
               /\ ret'.inserted = admit
               /\ (ret' # ret /\ admit) =>
                      http_cache' \in cache_insert(http_cache, ret'.cache_key, entry)
               /\ (ret' # ret /\ ~admit) => http_cache' = http_cache

\* C30: telemetry does not interfere with the request path.  The response
\* a handler returns and the cache it leaves are the same function of the
\* request, the cache and the upstream response whether no producer is
\* configured, the record is delivered or its delivery fails, and the
\* handler returns without waiting for the delivery to finish.
C30_TelemetryApart ==
    [][TelemetryFrame]_vars

\* The delivery of the event of an admitted 200 response failed after the
\* handler had returned: the response and the cache entry stand.
C30_Witness ==
    /\ kafka_producer
    /\ kafka.outcome = "failed"
    /\ kafka.record = ret.events
    /\ ret.ret = "upstream_ok"
    /\ ret.response.status = 200
    /\ ret.inserted
    /\ ret.cache_key \in DOMAIN http_cache

\* The queue size the bound is stated for.  The source names none: whatever
\* it is, one task more than that can be pending.
QueueSize == MaxSends - 1

\* C31: the number of observation records waiting to be sent is bounded by
\* a fixed queue size in every reachable state (and a record published to a
\* full queue displaces the oldest one and is counted as a drop).
C31_BoundedQueue ==
    Len(sends) <= QueueSize

(***************************************************************************)
(* main.rs, handle_connection and handle_request                           *)
(***************************************************************************)
\* C32: when the tunnel of a CONNECT request ends, by either side closing
\* or by the splice ending with an error, one observation with method
\* CONNECT, status 200 and cache_status BYPASS is emitted (its response_size
\* the number of bytes copied from the origin to the client).
C32_TunnelObserved ==
    ret.ret \in {"tunnel_closed", "copy_failed"} =>
        /\ Len(ret.events) = 1
        /\ ret.events[1].method = "CONNECT"
        /\ ret.events[1].status = 200
        /\ ret.events[1].cache_status = "BYPASS"
        /\ ret.events[1].response_size \in TunnelBytes

Cancelled == {"cancelled at " \o pc : pc \in SuspensionPoints}

\* The step in which a fetch is cancelled changes neither the cache nor the
\* record of insertions, and the cache changes only in a step in which a
\* handler returns the upstream response it admitted: a handler that has
\* not returned, and so every handler that is cancelled, has inserted
\* nothing.
CancelledFrame ==
    /\ ret'.ret \in Cancelled => UNCHANGED <<http_cache, inserted>>
    /\ http_cache' # http_cache =>
           /\ ret'.ret = "upstream_ok"
           /\ ret'.inserted
           /\ ret'.cache_key \in DOMAIN http_cache'
           /\ http_cache'[ret'.cache_key].body = ret'.response.body

\* C33: a fetch cancelled because its client went away never inserts an
\* entry into the cache, at whichever suspension point of handle_request
\* the cancellation is observed.
C33_CancelledAdmitsNothing ==
    [][CancelledFrame]_vars

\* A fetch was cancelled while the body of a cacheable upstream response
\* was being collected, and the cache holds nothing under its key.
C33_Witness ==
    /\ ret.ret = "cancelled at collect_response"
    /\ is_cacheable(ret.method, ret.upstream.status, 0)
    /\ ret.cache_key \notin DOMAIN http_cache

\* C34: every request forwarded upstream eventually gets a response (when
\* the upstream produces none within the time budget, the upstream task is
\* cancelled and the client receives 504).
C34_UpstreamAnswered ==
    \A r \in Clients : (req[r].pc = "upstream") ~> (req[r].pc # "upstream")

(***************************************************************************)
(* main.rs, extract_user_info                                              *)
(***************************************************************************)
\* C35: when the request carries a Proxy-Authorization header of the form
\* Basic <base64> that decodes to text containing ':', the username and the
\* user_id of its observation record are the part left of the first ':';
\* otherwise both are absent.
C35_ProxyAuthorization ==
    auth.returned =>
        LET claimed == IF "proxy-authorization" \in DOMAIN auth.headers
                       THEN Basic(auth.headers["proxy-authorization"])
                       ELSE None
        IN  auth.user = UserInfo(claimed, claimed)

(***************************************************************************)
(* acl.rs                                                                  *)
(***************************************************************************)
\* The rules given to the engine that are enabled and match the request
\* checked, by their place in the order they were given; those of them with
\* the highest priority.
Candidates == {i \in 1..Len(acl.given) :
                  acl.given[i].enabled /\ matches_rule(acl.given[i], acl.request)}

Top == {i \in Candidates : \A j \in Candidates :
            acl.given[i].priority >= acl.given[j].priority}

\* What check_access returns for the request when the same rules are
\* loaded in another order.
Reordered ==
    {check_access(load_rules(acl.engine, [i \in 1..Len(acl.given) |-> acl.given[p[i]]]),
                  acl.request) : p \in Permutations(1..Len(acl.given))}

LookupEvicts ==
    \A r \in Clients :
        (/\ req[r].pc = "idle"
         /\ req'[r].pc = "collect_body"
         /\ req'[r].cache_key \in DOMAIN http_cache
         /\ is_expired(http_cache[req'[r].cache_key]))
        => req'[r].cache_key \notin DOMAIN http_cache'

\* C37: a lookup that encounters an expired entry for key k removes it from
\* the cache, so that after the request the cache holds no expired entry
\* for k whether or not the fresh upstream response is admitted.
C37_ExpiredEvicted ==
    [][LookupEvicts]_vars

(***************************************************************************)
(* icp.rs, query_peer                                                      *)
(***************************************************************************)
\* C38: a short or garbled datagram received while a query is outstanding
\* is dropped and the query keeps waiting: when a valid reply of the peer
\* queried, with the request number of the query, reached the socket
\* before the deadline, query_peer returns that reply.
C38_GarbledDropped ==
    (qpeer.state \in {"ok", "err", "timeout"} /\ qpeer.answer # "") =>
        /\ qpeer.state = "ok"
        /\ qpeer.response = qpeer.answer

(***************************************************************************)
(* peers.rs and hierarchy.rs: the counters of a peer                       *)
(***************************************************************************)
InUnitInterval(ratio) ==
    /\ ~Less(ratio, Ratio(0, 1))
    /\ ~Greater(ratio, Ratio(1, 1))

\* C39: under any interleaving of record_peer_hit, record_peer_miss and
\* record_peer_error calls on a peer, requests >= hits + misses + errors in
\* every reachable state, with equality whenever no record call is in
\* progress, and the lifetime error rate lies in [0, 1], as read from the
\* counters at any moment and as computed inside record_peer_error.
C39_CountersConsistent ==
    LET stats == peers[StatsPeer].stats
        counted == stats.hits + stats.misses + stats.errors
    IN  /\ stats.requests >= counted
        /\ (\A t \in RecTasks : rec.tasks[t].pc = "idle") => stats.requests = counted
        /\ InUnitInterval(error_rate(stats))
        /\ InUnitInterval(rec.rate)

\* Two calls overlap: one has counted its request and not yet its error
\* while the other, which recorded an error, has loaded the error counter
\* and not yet the request counter.
C39_Witness ==
    /\ rec.tasks["t1"].pc = "record"
    /\ rec.tasks["t2"].pc = "load_requests"
    /\ peers[StatsPeer].stats.requests = 3
    /\ peers[StatsPeer].stats.errors = 2

(***************************************************************************)
(* hierarchy.rs and peers.rs: a peer that has been marked unhealthy        *)
(***************************************************************************)
\* One step leaves an unhealthy peer as it is: the flag stays false, the
\* counters do not change, the error rate is over 0.5, and the step does not
\* return the peer from resolve_source.
Absorbed(id) ==
    /\ ~peers'[id].healthy
    /\ peers'[id].stats = peers[id].stats
    /\ ErrorsOver(peers'[id].stats, 1, 2)
    /\ ~(hret'.op = "resolve_source" /\ hret'.source.peer = id)

AbsorbingStep == \A id \in DOMAIN peers : ~peers[id].healthy => Absorbed(id)

\* C40 (original): with interactions recorded only for peers resolve_source
\* returned, a peer whose flag is false is never returned again, its counters
\* stop changing, its error rate stays above 0.5 and no health_check sets
\* the flag back.
C40_Original == [][AbsorbingStep]_vars

InTurnAbsorbingStep == ~handed'.late => AbsorbingStep

\* C40 (as amended): with interactions recorded only for peers
\* resolve_source returned, and each recorded before a later resolve_source
\* call starts, a peer whose flag is false is never returned again, its
\* counters stop changing, its error rate stays above 0.5 and no
\* health_check sets the flag back.
C40_UnhealthyAbsorbing == [][InTurnAbsorbingStep]_vars

\* C40 witness: every outcome was recorded in turn, the only parent is
\* unhealthy, and the second resolve_source call has just returned
\* OriginRequired instead of it.
C40_Witness ==
    /\ ~handed.late
    /\ \E id \in DOMAIN peers :
           /\ peers[id].config.peer_type = "parent"
           /\ ~peers[id].healthy
    /\ Resolved
    /\ hret.call.seq = 2
    /\ hret.source = OriginRequired

=============================================================================
